---- MODULE Spec2Model ----
(***************************************************************************)
(* Aspiro AI backend: the credential store, the path store and the HTTP    *)
(* handlers of server/routes/*.py (the blueprint application) and of       *)
(* server/app.py (the earlier single-file application, which has no        *)
(* authentication), over one relational store.                             *)
(*                                                                         *)
(* Strings are sequences of one-character strings, so that length, suffix  *)
(* and pattern tests are computed as the code computes them.  A JSON value *)
(* is a tagged record: [null |-> TRUE], [str |-> s], [num |-> n],          *)
(* [bool |-> b], [arr |-> <<..>>], [obj |-> f].                            *)
(***************************************************************************)
EXTENDS Integers, Sequences, FiniteSets, TLC

VARIABLES
    users,       \* rows of table users: [id, email, password_hash]
    paths,       \* rows of table saved_paths: [id, path_name, details, user_id]
    req,         \* the last request answered
    resp,        \* its response
    fx,          \* what that request did besides: remote calls, reads, rollback
    registered,  \* history: [email, password, user_id] of every 201 of register
    saved_by,    \* history: <<path id, identity, body>> of each save answered 201, until a delete of that id is answered 200
    pend         \* per worker: the register request in flight between check and commit

vars == <<users, paths, req, resp, fx, registered, saved_by, pend>>

(***************************************************************************)
(* Bounds of the model.                                                    *)
(***************************************************************************)
MaxPathId == 2

Procs == {1, 2}

(***************************************************************************)
(* Program constants.                                                      *)
(***************************************************************************)
MAX_INPUT_STRING_LENGTH == 255
MAX_PATH_NAME_LENGTH == 200
MAX_TARGET_ROLE_LENGTH == 150
MAX_CAREER_FIELD_LENGTH == 150
MIN_PASSWORD_LENGTH == 6

(***************************************************************************)
(* Characters and strings.                                                 *)
(***************************************************************************)
Lower == {"a","b","c","d","e","f","g","h","i","j","k","l","m",
          "n","o","p","q","r","s","t","u","v","w","x","y","z"}
Upper == {"A","B","C","D","E","F","G","H","I","J","K","L","M",
          "N","O","P","Q","R","S","T","U","V","W","X","Y","Z"}
Digits == <<"0","1","2","3","4","5","6","7","8","9">>
Digit == {Digits[i] : i \in 1..10}
Alnum == Lower \cup Upper \cup Digit

Max(S) == CHOOSE x \in S : \A y \in S : y <= x

\* str(n) of a non-negative integer: its decimal digits
RECURSIVE PyStr(_)
PyStr(n) == IF n < 10 THEN <<Digits[n + 1]>>
          ELSE Append(PyStr(n \div 10), Digits[(n % 10) + 1])

DigitValue(c) == CHOOSE d \in 0..9 : Digits[d + 1] = c

\* whether int(s) succeeds on a string of plain decimal digits
IsDecimal(s) == Len(s) > 0 /\ \A i \in 1..Len(s) : s[i] \in Digit

\* int(s) of a string of decimal digits
RECURSIVE PyInt(_)
PyInt(s) == IF Len(s) = 1 THEN DigitValue(s[1])
          ELSE 10 * PyInt(SubSeq(s, 1, Len(s) - 1)) + DigitValue(s[Len(s)])

(***************************************************************************)
(* JSON values as Python sees them after request.get_json().               *)
(***************************************************************************)
JNull == [null |-> TRUE]
JStr(s) == [str |-> s]
JNum(n) == [num |-> n]
JBool(b) == [bool |-> b]
JArr(a) == [arr |-> a]
JObj(f) == [obj |-> f]      \* a request body: members by field name
JDict(d) == [dict |-> d]    \* a nested object: <<key, value>> pairs in order
EmptyFields == [k \in {} |-> JNull]

IsNull(v) == "null" \in DOMAIN v
IsStr(v) == "str" \in DOMAIN v
IsNum(v) == "num" \in DOMAIN v
IsBool(v) == "bool" \in DOMAIN v
IsArr(v) == "arr" \in DOMAIN v
IsObj(v) == "obj" \in DOMAIN v
IsDict(v) == "dict" \in DOMAIN v

\* Python truthiness of a JSON value (`not v` is its negation)
Truthy(v) ==
    IF IsNull(v) THEN FALSE
    ELSE IF IsStr(v) THEN Len(v.str) > 0
    ELSE IF IsNum(v) THEN v.num # 0
    ELSE IF IsBool(v) THEN v.bool
    ELSE IF IsArr(v) THEN Len(v.arr) > 0
    ELSE IF IsDict(v) THEN Len(v.dict) > 0
    ELSE DOMAIN v.obj # {}

\* dict.get(key): the value, or None when the key is absent
Get(data, key) == IF key \in DOMAIN data.obj THEN data.obj[key] ELSE JNull

\* whether len(v) is defined (str, list, dict); it raises TypeError otherwise
HasLen(v) == IsStr(v) \/ IsArr(v) \/ IsDict(v) \/ IsObj(v)
PyLen(v) == IF IsStr(v) THEN Len(v.str)
            ELSE IF IsArr(v) THEN Len(v.arr)
            ELSE IF IsDict(v) THEN Len(v.dict)
            ELSE Cardinality(DOMAIN v.obj)

(***************************************************************************)
(* Responses.                                                              *)
(***************************************************************************)
\* make_error_response(message, status_code) with no details
make_error_response(message, status_code) ==
    [status |-> status_code, json |-> TRUE, body |-> [error |-> message]]

\* jsonify(body), status
Json(body, status_code) == [status |-> status_code, json |-> TRUE, body |-> body]

\* an exception that leaves the view function: the framework's own 500 page
Unhandled == [status |-> 500, json |-> FALSE, body |-> [html |-> "Internal Server Error"]]

NoFx == [remote |-> 0, extract |-> 0, reads |-> 0, rollback |-> FALSE, read_data |-> <<>>]
RolledBack == [remote |-> 0, extract |-> 0, reads |-> 0, rollback |-> TRUE, read_data |-> <<>>]

(***************************************************************************)
(* Input validation helpers (server/utils.py).                             *)
(***************************************************************************)
LocalChars == Alnum \cup {"_", ".", "+", "-"}
DomainChars == Alnum \cup {"-"}
TldChars == Alnum \cup {"-", "."}

\* ^[a-zA-Z0-9_.+-]+@[a-zA-Z0-9-]+\.[a-zA-Z0-9-.]+ anchored at both ends of s
FullMatch(s) ==
    \E i \in 2..Len(s) :
        /\ s[i] = "@"
        /\ \A k \in 1..(i - 1) : s[k] \in LocalChars
        /\ \E j \in (i + 2)..(Len(s) - 1) :
              /\ s[j] = "."
              /\ \A k \in (i + 1)..(j - 1) : s[k] \in DomainChars
              /\ \A k \in (j + 1)..Len(s) : s[k] \in TldChars

\* EMAIL_REGEX.match(s): `$` also matches just before one trailing newline
RegexMatch(s) ==
    \/ FullMatch(s)
    \/ Len(s) > 0 /\ s[Len(s)] = "\n" /\ FullMatch(SubSeq(s, 1, Len(s) - 1))

\* is_valid_email(email) for a str argument
is_valid_email(email) == Len(email) > 0 /\ RegexMatch(email)

(***************************************************************************)
(* Password hashing (flask_bcrypt): an opaque one-way value; verification  *)
(* succeeds exactly on the hashed plaintext.  bcrypt hashes the first 72   *)
(* bytes of the password.                                                  *)
(***************************************************************************)
BcryptInput(password) ==
    SubSeq(password, 1, IF Len(password) < 72 THEN Len(password) ELSE 72)

generate_password_hash(password) == [bcrypt |-> BcryptInput(password)]
check_password_hash(pw_hash, password) == pw_hash = generate_password_hash(password)

(***************************************************************************)
(* Tokens.  A token is [kind, sub]; only login creates tokens of kind      *)
(* "valid" (signed with the process secret, unexpired).                    *)
(***************************************************************************)
create_access_token(identity) == [kind |-> "valid", sub |-> identity]

NoToken == [kind |-> "none", sub |-> <<>>]
Malformed == [kind |-> "malformed", sub |-> <<>>]

\* verify(token): the identity, or Unauthorized for a missing, malformed,
\* expired or badly signed token
VerifyToken(token) ==
    IF token.kind = "valid" THEN [ok |-> TRUE, identity |-> token.sub]
    ELSE [ok |-> FALSE, identity |-> <<>>]

Unauthorized == make_error_response("Unauthorized", 401)

\* @jwt_required() on a route: whether the view function is entered
jwt_optional(token) == TRUE

jwt_required(token) == VerifyToken(token).ok

(***************************************************************************)
(* The store.                                                              *)
(***************************************************************************)
\* INTEGER PRIMARY KEY without AUTOINCREMENT: the next rowid is max + 1
NewId(rows) == IF rows = {} THEN 1 ELSE Max({r.id : r \in rows}) + 1

\* User.query.filter_by(email=email).first()
UsersByEmail(us, email) == {u \in us : u.email = email}

\* a users table whose email column is not declared unique
UniqueEmailHolds_Undeclared(us, email) == TRUE

\* the UNIQUE constraint of users.email, tested by the store at INSERT
UniqueEmailHolds(us, email) == UsersByEmail(us, email) = {}

\* a lookup that takes any stored user for the one asked for
GetUser_AnyRow(us, identity) == us

\* db.session.get(User, identity): the key is a string, compared by the
\* store with the integer column after numeric conversion
GetUser(us, identity) ==
    IF IsDecimal(identity) THEN {u \in us : u.id = PyInt(identity)} ELSE {}

\* db.session.get(SavedPath, path_id)
GetPath(ps, path_id) == {p \in ps : p.id = path_id}

(***************************************************************************)
(* Request bodies.  request.get_json() raises (415/400) when the request   *)
(* carries no JSON document: NoJson; otherwise it returns the JSON value.  *)
(***************************************************************************)
NoJson == [nojson |-> TRUE]
Absent == [absent |-> TRUE]

\* the JSON object with the given members, a member Absent being left out
MkObj(members) ==
    LET keys == {k \in DOMAIN members : members[k] # Absent}
    IN JObj([k \in keys |-> members[k]])

EmailA == <<"a", "@", "b", ".", "c">>
EmailB == <<"d", "@", "b", ".", "c">>
EmailBad == <<"a", "b">>
Pw1 == <<"s", "e", "c", "r", "e", "t">>
Pw2 == <<"h", "u", "n", "t", "e", "r", "2">>
PwShort == <<"1", "2", "3", "4", "5">>

AuthBodies ==
    {NoJson, JNull,
     MkObj([email |-> JStr(EmailA), password |-> Absent]),
     MkObj([email |-> JStr(EmailBad), password |-> JStr(Pw1)]),
     MkObj([email |-> JStr(EmailA), password |-> JStr(PwShort)])}
    \cup {MkObj([email |-> JStr(EmailA), password |-> JStr(p)]) : p \in {Pw1, Pw2}}
    \cup {MkObj([email |-> JStr(EmailB), password |-> JStr(Pw1)])}

\* a body whose email and password are strings that pass register's checks
WellFormed(body) ==
    /\ IsObj(body)
    /\ IsStr(Get(body, "email")) /\ IsStr(Get(body, "password"))
    /\ is_valid_email(Get(body, "email").str)
    /\ Len(Get(body, "email").str) <= MAX_INPUT_STRING_LENGTH
    /\ Len(Get(body, "password").str) >= MIN_PASSWORD_LENGTH
    /\ Len(Get(body, "password").str) <= MAX_INPUT_STRING_LENGTH

(***************************************************************************)
(* POST /api/register (server/routes/auth_routes.py).                      *)
(***************************************************************************)
Done(r, f) == [done |-> TRUE, resp |-> r, fx |-> f]

\* a minimum-length test that also rejects a password of the minimum length
PasswordTooShort_AtMinimum(password) == PyLen(password) <= MIN_PASSWORD_LENGTH

\* line 45: len(password) < 6
PasswordTooShort(password) == PyLen(password) < MIN_PASSWORD_LENGTH

\* lines 31-48: the body and its fields
RegisterValidate(body) ==
    IF ~IsObj(body)
    THEN \* get_json() or data.get raises; the handler's `except Exception`
         \* block then reads `email`, which was never bound
         Done(Unhandled, RolledBack)
    ELSE LET email == Get(body, "email")
             password == Get(body, "password")
         IN IF ~Truthy(email) \/ ~Truthy(password)
            THEN Done(make_error_response("Email and password are required", 400), NoFx)
            ELSE IF ~IsStr(email)   \* EMAIL_REGEX.match raises TypeError
            THEN Done(make_error_response("Registration failed. Please try again.", 500), RolledBack)
            ELSE IF ~is_valid_email(email.str)
            THEN Done(make_error_response("Invalid email format", 400), NoFx)
            ELSE IF Len(email.str) > MAX_INPUT_STRING_LENGTH
            THEN Done(make_error_response("Email exceeds maximum length of 255 characters", 400), NoFx)
            ELSE IF ~HasLen(password)   \* len(password) raises TypeError
            THEN Done(make_error_response("Registration failed. Please try again.", 500), RolledBack)
            ELSE IF PasswordTooShort(password)
            THEN Done(make_error_response("Password must be at least 6 characters long", 400), NoFx)
            ELSE IF PyLen(password) > MAX_INPUT_STRING_LENGTH
            THEN Done(make_error_response("Password exceeds maximum length of 255 characters", 400), NoFx)
            ELSE [done |-> FALSE, email |-> email.str, password |-> password]

\* the handler without its existence query
RegisterCheck_NoLookup(us, body) ==
    LET v == RegisterValidate(body)
    IN IF v.done THEN v
       ELSE IF ~IsStr(v.password)
       THEN Done(make_error_response("Registration failed. Please try again.", 500), RolledBack)
       ELSE [done |-> FALSE, email |-> v.email,
             password_hash |-> generate_password_hash(v.password.str)]

\* lines 31-55: validation, the existence query and the hashing; either the
\* response, or the User row the handler goes on to insert
RegisterCheck(us, body) ==
    LET v == RegisterValidate(body)
    IN IF v.done THEN v
       ELSE IF UsersByEmail(us, v.email) # {}
       THEN Done(make_error_response("Email already registered", 409), NoFx)
       ELSE IF ~IsStr(v.password)   \* generate_password_hash raises
       THEN Done(make_error_response("Registration failed. Please try again.", 500), RolledBack)
       ELSE [done |-> FALSE, email |-> v.email,
             password_hash |-> generate_password_hash(v.password.str)]

\* lines 57-65: add, commit; the store raises IntegrityError on a taken email
RegisterCommit(us, email, password_hash) ==
    IF ~UniqueEmailHolds(us, email)
    THEN [users |-> us,
          resp |-> make_error_response("Registration failed due to a database error.", 500),
          fx |-> RolledBack]
    ELSE LET new_user == [id |-> NewId(us), email |-> email, password_hash |-> password_hash]
         IN [users |-> us \cup {new_user},
             resp |-> Json([message |-> "User registered successfully",
                            user_id |-> new_user.id], 201),
             fx |-> NoFx]

\* the whole handler, run without interruption
register_user(us, body) ==
    LET c == RegisterCheck(us, body)
    IN IF c.done THEN [users |-> us, resp |-> c.resp, fx |-> c.fx]
       ELSE RegisterCommit(us, c.email, c.password_hash)

(***************************************************************************)
(* POST /api/login (server/routes/auth_routes.py).                         *)
(***************************************************************************)
\* line 103: the identity put into the token
LoginIdentity_Email(user) == user.email

LoginIdentity(user) == PyStr(user.id)

\* lines 110-112: the one `else` branch that answers an unknown email and a
\* wrong password alike
LoginRejected_Reveals(user_found) ==
    IF user_found THEN make_error_response("Incorrect password", 401)
    ELSE make_error_response("No account with this email", 404)

LoginRejected(user_found) == make_error_response("Invalid email or password", 401)

login_user(us, body) ==
    IF ~IsObj(body)
    THEN \* the `except` block reads data.get: data is unbound or not a dict
         Unhandled
    ELSE LET email == Get(body, "email")
             password == Get(body, "password")
             LoginFailed == make_error_response(
                                "An unexpected server error occurred during login.", 500)
         IN IF ~Truthy(email) \/ ~Truthy(password)
            THEN make_error_response("Email and password are required", 400)
            ELSE IF ~IsStr(email)
            THEN LoginFailed
            ELSE IF ~is_valid_email(email.str)
            THEN make_error_response("Invalid email format provided for login", 400)
            ELSE IF Len(email.str) > MAX_INPUT_STRING_LENGTH
            THEN make_error_response("Email exceeds maximum length of 255 characters", 400)
            ELSE LET found == UsersByEmail(us, email.str)
                 IN IF found = {}
                    THEN LoginRejected(FALSE)
                    ELSE LET user == CHOOSE u \in found : TRUE
                         IN IF ~IsStr(password)   \* check_password_hash raises
                            THEN LoginFailed
                            ELSE IF check_password_hash(user.password_hash, password.str)
                            THEN Json([message |-> "Login successful",
                                       user_id |-> user.id,
                                       access_token |-> create_access_token(LoginIdentity(user))], 200)
                            ELSE LoginRejected(TRUE)

(***************************************************************************)
(* json.dumps and json.loads on the values a path's details can take      *)
(* (server/models.py stores the details as serialized text).               *)
(***************************************************************************)
Quote == "\""
Backslash == "\\"

RECURSIVE Escape(_)
Escape(s) ==
    IF s = <<>> THEN <<>>
    ELSE (IF Head(s) \in {Quote, Backslash} THEN <<Backslash, Head(s)>> ELSE <<Head(s)>>)
         \o Escape(Tail(s))

RECURSIVE json_dumps(_)
RECURSIVE DumpElems(_, _)
RECURSIVE DumpMembers(_, _)
json_dumps(v) ==
    IF IsNull(v) THEN <<"n", "u", "l", "l">>
    ELSE IF IsBool(v) THEN (IF v.bool THEN <<"t", "r", "u", "e">>
                            ELSE <<"f", "a", "l", "s", "e">>)
    ELSE IF IsNum(v) THEN PyStr(v.num)
    ELSE IF IsStr(v) THEN <<Quote>> \o Escape(v.str) \o <<Quote>>
    ELSE IF IsArr(v) THEN <<"[">> \o DumpElems(v.arr, 1) \o <<"]">>
    ELSE <<"{">> \o DumpMembers(v.dict, 1) \o <<"}">>
DumpElems(a, i) ==
    IF i > Len(a) THEN <<>>
    ELSE (IF i > 1 THEN <<",", " ">> ELSE <<>>) \o json_dumps(a[i]) \o DumpElems(a, i + 1)
DumpMembers(d, i) ==
    IF i > Len(d) THEN <<>>
    ELSE (IF i > 1 THEN <<",", " ">> ELSE <<>>)
         \o <<Quote>> \o Escape(d[i][1]) \o <<Quote, ":", " ">>
         \o json_dumps(d[i][2]) \o DumpMembers(d, i + 1)

ParseFail == [ok |-> FALSE, val |-> JNull, next |-> 0]
Parsed(v, n) == [ok |-> TRUE, val |-> v, next |-> n]

RECURSIVE SkipWs(_, _)
SkipWs(t, i) == IF i <= Len(t) /\ t[i] \in {" ", "\n", "\t", "\r"} THEN SkipWs(t, i + 1) ELSE i

Literal(t, i, word) == i + Len(word) - 1 <= Len(t) /\ SubSeq(t, i, i + Len(word) - 1) = word

RECURSIVE DigitsEnd(_, _)
DigitsEnd(t, i) == IF i <= Len(t) /\ t[i] \in Digit THEN DigitsEnd(t, i + 1) ELSE i

\* the characters of a string literal whose opening quote is before i
RECURSIVE ParseChars(_, _, _)
ParseChars(t, i, acc) ==
    IF i > Len(t) THEN ParseFail
    ELSE IF t[i] = Quote THEN Parsed(acc, i + 1)
    ELSE IF t[i] = Backslash
    THEN (IF i + 1 <= Len(t) /\ t[i + 1] \in {Quote, Backslash}
          THEN ParseChars(t, i + 2, Append(acc, t[i + 1]))
          ELSE ParseFail)
    ELSE ParseChars(t, i + 1, Append(acc, t[i]))

RECURSIVE ParseValue(_, _)
RECURSIVE ParseElems(_, _, _)
RECURSIVE ParseMembers(_, _, _)
ParseValue(t, i) ==
    IF i > Len(t) THEN ParseFail
    ELSE IF Literal(t, i, <<"n", "u", "l", "l">>) THEN Parsed(JNull, i + 4)
    ELSE IF Literal(t, i, <<"t", "r", "u", "e">>) THEN Parsed(JBool(TRUE), i + 4)
    ELSE IF Literal(t, i, <<"f", "a", "l", "s", "e">>) THEN Parsed(JBool(FALSE), i + 5)
    ELSE IF t[i] \in Digit
    THEN (LET e == DigitsEnd(t, i)
          IN IF t[i] = "0" /\ e > i + 1 THEN ParseFail   \* no leading zeros
             ELSE Parsed(JNum(PyInt(SubSeq(t, i, e - 1))), e))
    ELSE IF t[i] = Quote
    THEN (LET r == ParseChars(t, i + 1, <<>>)
          IN IF r.ok THEN Parsed(JStr(r.val), r.next) ELSE ParseFail)
    ELSE IF t[i] = "["
    THEN (LET j == SkipWs(t, i + 1)
          IN IF j <= Len(t) /\ t[j] = "]" THEN Parsed(JArr(<<>>), j + 1)
             ELSE ParseElems(t, j, <<>>))
    ELSE IF t[i] = "{"
    THEN (LET j == SkipWs(t, i + 1)
          IN IF j <= Len(t) /\ t[j] = "}" THEN Parsed(JDict(<<>>), j + 1)
             ELSE ParseMembers(t, j, <<>>))
    ELSE ParseFail
ParseElems(t, i, acc) ==
    LET r == ParseValue(t, i)
    IN IF ~r.ok THEN ParseFail
       ELSE LET j == SkipWs(t, r.next)
            IN IF j > Len(t) THEN ParseFail
               ELSE IF t[j] = "]" THEN Parsed(JArr(Append(acc, r.val)), j + 1)
               ELSE IF t[j] = "," THEN ParseElems(t, SkipWs(t, j + 1), Append(acc, r.val))
               ELSE ParseFail
ParseMembers(t, i, acc) ==
    IF i > Len(t) \/ t[i] # Quote THEN ParseFail
    ELSE LET k == ParseChars(t, i + 1, <<>>)
         IN IF ~k.ok THEN ParseFail
            ELSE LET c == SkipWs(t, k.next)
                 IN IF c > Len(t) \/ t[c] # ":" THEN ParseFail
                    ELSE LET r == ParseValue(t, SkipWs(t, c + 1))
                         IN IF ~r.ok THEN ParseFail
                            ELSE LET j == SkipWs(t, r.next)
                                     more == Append(acc, <<k.val, r.val>>)
                                 IN IF j > Len(t) THEN ParseFail
                                    ELSE IF t[j] = "}" THEN Parsed(JDict(more), j + 1)
                                    ELSE IF t[j] = ","
                                    THEN ParseMembers(t, SkipWs(t, j + 1), more)
                                    ELSE ParseFail

\* json.loads(text): ok is FALSE where it raises JSONDecodeError
json_loads(t) ==
    LET r == ParseValue(t, SkipWs(t, 1))
    IN IF r.ok /\ SkipWs(t, r.next) = Len(t) + 1 THEN r ELSE ParseFail

(***************************************************************************)
(* SavedPath (server/models.py).                                           *)
(***************************************************************************)
SqlNull == [sqlnull |-> TRUE]
SqlText(t) == [text |-> t]

\* a setter that tests `if not value`: every falsy value becomes NULL
SetPathDetails_FalsyAsNull(value) ==
    IF ~Truthy(value) THEN SqlNull ELSE SqlText(json_dumps(value))

\* the setter of path_details_json: the column's new value
SetPathDetails(value) == IF IsNull(value) THEN SqlNull ELSE SqlText(json_dumps(value))

\* the getter of path_details_json
GetPathDetails(stored) ==
    IF stored = SqlNull THEN JNull
    ELSE LET r == json_loads(stored.text)
         IN IF r.ok THEN r.val ELSE JNull

\* a serializer that reads the column, not the property
to_dict_Column(p) ==
    [id |-> p.id, path_name |-> p.path_name,
     path_details_json |-> p.details, user_id |-> p.user_id]

to_dict(p) ==
    [id |-> p.id, path_name |-> p.path_name,
     path_details_json |-> GetPathDetails(p.details), user_id |-> p.user_id]

\* the rows in rowid order, each serialized
RECURSIVE ToDicts(_)
ToDicts(rows) ==
    IF rows = {} THEN <<>>
    ELSE LET first == CHOOSE p \in rows : \A q \in rows : p.id <= q.id
         IN <<to_dict(first)>> \o ToDicts(rows \ {first})

(***************************************************************************)
(* The path routes (server/routes/path_routes.py).  Each is wrapped by     *)
(* @jwt_required(): without a verified token the view function is not run. *)
(***************************************************************************)
Out(ps, r, f) == [paths |-> ps, resp |-> r, fx |-> f]

\* POST /api/save-path, the view function (lines 28-69)
SavePathView(us, ps, current_user_id, body) ==
    LET Failed == Out(ps, make_error_response(
                         "Failed to save career path. Please try again.", 500), RolledBack)
        DbFailed == Out(ps, make_error_response(
                         "Failed to save career path due to a database error.", 500), RolledBack)
    IN IF body = NoJson THEN Failed          \* get_json() raises
       ELSE IF IsNull(body)
       THEN Out(ps, make_error_response("Invalid or missing JSON request body.", 400), NoFx)
       ELSE IF ~IsObj(body) THEN Failed      \* data.get raises AttributeError
       ELSE LET path_name == Get(body, "path_name")
                path_details_json == Get(body, "path_details_json")
            IN IF ~Truthy(path_name)
               THEN Out(ps, make_error_response("path_name is required", 400), NoFx)
               ELSE IF ~HasLen(path_name) THEN Failed    \* len() raises TypeError
               ELSE IF PyLen(path_name) > MAX_PATH_NAME_LENGTH
               THEN Out(ps, make_error_response(
                            "Path name exceeds maximum length of 200 characters", 400), NoFx)
               ELSE IF GetUser(us, current_user_id) = {}
               THEN Out(ps, make_error_response(
                            "Authenticated user not found in database", 404), NoFx)
               ELSE IF ~IsStr(path_name) THEN DbFailed   \* the value cannot be bound
               ELSE LET new_path == [id |-> NewId(ps),
                                     path_name |-> path_name.str,
                                     details |-> SetPathDetails(path_details_json),
                                     user_id |-> PyInt(current_user_id)]
                    IN Out(ps \cup {new_path},
                           Json([message |-> "Career path saved successfully",
                                 path_id |-> new_path.id], 201), NoFx)

save_career_path_route(us, ps, token, body) ==
    LET v == VerifyToken(token)
    IN IF ~jwt_required(token) THEN Out(ps, Unauthorized, NoFx)
       ELSE SavePathView(us, ps, v.identity, body)

\* the route without the filter on user_id
get_user_paths_route_Unfiltered(us, ps, token) ==
    LET v == VerifyToken(token)
    IN IF ~jwt_required(token) THEN Unauthorized
       ELSE IF GetUser(us, v.identity) = {}
       THEN make_error_response("Authenticated user not found in database", 404)
       ELSE Json([paths |-> ToDicts(ps)], 200)

\* GET /api/user/paths (lines 80-98)
get_user_paths_route(us, ps, token) ==
    LET v == VerifyToken(token)
    IN IF ~jwt_required(token) THEN Unauthorized
       ELSE IF GetUser(us, v.identity) = {}
       THEN make_error_response("Authenticated user not found in database", 404)
       ELSE Json([paths |-> ToDicts({p \in ps : p.user_id = PyInt(v.identity)})], 200)

\* the view function without its ownership test
DeletePathView_NoOwnerCheck(ps, current_user_id, path_id) ==
    LET found == GetPath(ps, path_id)
    IN IF found = {}
       THEN Out(ps, make_error_response("Path not found", 404), NoFx)
       ELSE Out(ps \ found, Json([message |-> "Career path deleted successfully"], 200), NoFx)

\* the view function comparing the owner before it tests the lookup's
\* result: path_to_delete.user_id raises AttributeError on None
DeletePathView_OwnerFirst(ps, current_user_id, path_id) ==
    LET found == GetPath(ps, path_id)
        Failed == Out(ps, make_error_response(
                         "Failed to delete career path. Please try again.", 500), RolledBack)
    IN IF found = {} \/ ~IsDecimal(current_user_id) THEN Failed
       ELSE LET path_to_delete == CHOOSE p \in found : TRUE
            IN IF path_to_delete.user_id # PyInt(current_user_id)
               THEN Out(ps, make_error_response("Forbidden: You do not own this path", 403), NoFx)
               ELSE Out(ps \ {path_to_delete},
                        Json([message |-> "Career path deleted successfully"], 200), NoFx)

\* the view function deleting every path of the path's owner
DeletePathView_AllOfOwner(ps, current_user_id, path_id) ==
    LET found == GetPath(ps, path_id)
    IN IF found = {}
       THEN Out(ps, make_error_response("Path not found", 404), NoFx)
       ELSE LET path_to_delete == CHOOSE p \in found : TRUE
            IN IF ~IsDecimal(current_user_id)
               THEN Out(ps, make_error_response(
                            "Failed to delete career path. Please try again.", 500), RolledBack)
               ELSE IF path_to_delete.user_id # PyInt(current_user_id)
               THEN Out(ps, make_error_response("Forbidden: You do not own this path", 403), NoFx)
               ELSE Out({q \in ps : q.user_id # path_to_delete.user_id},
                        Json([message |-> "Career path deleted successfully"], 200), NoFx)

\* DELETE /api/delete-path/<int:path_id>, the view function (lines 112-139)
DeletePathView(ps, current_user_id, path_id) ==
    LET found == GetPath(ps, path_id)
    IN IF found = {}
       THEN Out(ps, make_error_response("Path not found", 404), NoFx)
       ELSE LET path_to_delete == CHOOSE p \in found : TRUE
            IN IF ~IsDecimal(current_user_id)    \* int() raises ValueError
               THEN Out(ps, make_error_response(
                            "Failed to delete career path. Please try again.", 500), RolledBack)
               ELSE IF path_to_delete.user_id # PyInt(current_user_id)
               THEN Out(ps, make_error_response("Forbidden: You do not own this path", 403), NoFx)
               ELSE Out(ps \ {path_to_delete},
                        Json([message |-> "Career path deleted successfully"], 200), NoFx)

delete_career_path_route(ps, token, path_id) ==
    LET v == VerifyToken(token)
    IN IF ~jwt_required(token) THEN Out(ps, Unauthorized, NoFx)
       ELSE DeletePathView(ps, v.identity, path_id)

(***************************************************************************)
(* POST /api/save-path of server/app.py (lines 285-313): no token is read, *)
(* the owner is the user_id of the request body.  A body that is no JSON  *)
(* object raises at data.get, outside the try block.  User.query.get with  *)
(* a key that is no number is answered by the store's driver; the requests *)
(* modelled carry a number or no user_id, and the other case is left as    *)
(* the raise of a strict driver.                                           *)
(***************************************************************************)
save_career_path(us, ps, body) ==
    IF body = NoJson \/ ~IsObj(body) THEN Out(ps, Unhandled, NoFx)
    ELSE LET user_id == Get(body, "user_id")
             path_name == Get(body, "path_name")
             path_details_json == Get(body, "path_details_json")
         IN IF ~(Truthy(user_id) /\ Truthy(path_name))
            THEN Out(ps, Json([error |-> "user_id and path_name are required"], 400), NoFx)
            ELSE IF ~IsNum(user_id) THEN Out(ps, Unhandled, NoFx)
            ELSE IF {u \in us : u.id = user_id.num} = {}
            THEN Out(ps, Json([error |-> "User not found"], 404), NoFx)
            ELSE IF ~IsStr(path_name)      \* the value cannot be bound: commit raises
            THEN Out(ps, Json([error |-> "Failed to save career path. Please try again."], 500),
                     RolledBack)
            ELSE LET new_path == [id |-> NewId(ps),
                                  path_name |-> path_name.str,
                                  details |-> SetPathDetails(path_details_json),
                                  user_id |-> user_id.num]
                 IN Out(ps \cup {new_path},
                        Json([message |-> "Career path saved successfully",
                              path_id |-> new_path.id], 201), NoFx)

(***************************************************************************)
(* DELETE /api/delete-path/<int:path_id> of server/app.py: no token is     *)
(* read and no owner is compared.                                          *)
(***************************************************************************)
delete_career_path(ps, path_id) ==
    LET found == GetPath(ps, path_id)
    IN IF found = {}
       THEN Out(ps, Json([error |-> "Path not found"], 404), NoFx)
       ELSE Out(ps \ found, Json([message |-> "Career path deleted successfully"], 200), NoFx)

(***************************************************************************)
(* File helpers (server/utils.py).  An upload is [filename, bytes]; its    *)
(* stream position is local to the request.                                *)
(***************************************************************************)
ALLOWED_EXTENSIONS == {<<"p", "d", "f">>, <<"d", "o", "c", "x">>, <<"t", "x", "t">>}

\* MAX_FILE_SIZE_BYTES of the configuration, scaled down
MaxFileSizeBytes == 2

Uppers == <<"A","B","C","D","E","F","G","H","I","J","K","L","M",
            "N","O","P","Q","R","S","T","U","V","W","X","Y","Z">>
Lowers == <<"a","b","c","d","e","f","g","h","i","j","k","l","m",
            "n","o","p","q","r","s","t","u","v","w","x","y","z">>

\* str.lower()
LowerChar(c) == IF c \in Upper THEN Lowers[CHOOSE i \in 1..26 : Uppers[i] = c] ELSE c
PyLower(s) == [i \in 1..Len(s) |-> LowerChar(s[i])]

\* filename.rsplit('.', 1)[1]: what follows the last dot
LastDot(s) == Max({i \in 1..Len(s) : s[i] = "."})
AfterLastDot(s) == SubSeq(s, LastDot(s) + 1, Len(s))

\* an allow-list test that lets every name through
allowed_file_AnyName(filename, allowed_extensions_config) == TRUE

allowed_file(filename, allowed_extensions_config) ==
    /\ \E i \in 1..Len(filename) : filename[i] = "."
    /\ PyLower(AfterLastDot(filename)) \in allowed_extensions_config

\* an endswith that ignores letter case
EndsWith_IgnoreCase(s, suffix) ==
    Len(s) >= Len(suffix) /\ PyLower(SubSeq(s, Len(s) - Len(suffix) + 1, Len(s))) = suffix

\* str.endswith(suffix)
EndsWith(s, suffix) ==
    Len(s) >= Len(suffix) /\ SubSeq(s, Len(s) - Len(suffix) + 1, Len(s)) = suffix

\* the character U+FFFD that errors='replace' puts in place of bytes that
\* cannot be decoded, and the character U+00E9 (the bytes 195 169)
ReplacementChar == "U+FFFD"
EAcute == "U+00E9"

\* UTF-8 decoding of bytes that are ASCII letters (97..122), the two-byte
\* sequence 195 169, a lead byte 195 without its continuation byte, a stray
\* continuation byte 169, or the byte 255, which no UTF-8 sequence contains;
\* undecodable is what is produced for each byte that cannot be decoded
RECURSIVE Decode(_, _)
Decode(bytes, undecodable) ==
    IF bytes = <<>> THEN <<>>
    ELSE IF Head(bytes) \in 97..122
    THEN <<Lowers[Head(bytes) - 96]>> \o Decode(Tail(bytes), undecodable)
    ELSE IF Head(bytes) = 195 /\ Len(bytes) >= 2 /\ bytes[2] = 169
    THEN <<EAcute>> \o Decode(Tail(Tail(bytes)), undecodable)
    ELSE undecodable \o Decode(Tail(bytes), undecodable)

\* bytes.decode('utf-8', errors='replace')
DecodeReplace(bytes) == Decode(bytes, <<ReplacementChar>>)

\* bytes.decode('utf-8', errors='ignore')
DecodeIgnore(bytes) == Decode(bytes, <<>>)

\* request.files['resume_file']: the upload as a stream at its first byte
Open(file) == [filename |-> file.filename, bytes |-> file.bytes, pos |-> 0]

\* a seek that leaves the stream where it is
seek_Ignored(file_storage, offset) == file_storage

\* file_storage.seek(offset)
seek(file_storage, offset) == [file_storage EXCEPT !.pos = offset]

\* file_storage.read(): the bytes from the position to the end, and the
\* stream it leaves, at its end
read(file_storage) ==
    [data |-> SubSeq(file_storage.bytes, file_storage.pos + 1, Len(file_storage.bytes)),
     file |-> [file_storage EXCEPT !.pos = Len(file_storage.bytes)]]

\* the document libraries are not part of the model: lib is what PdfReader
\* or docx.Document makes of the bytes it is given, text or an exception

\* extract_text_from_file(file_storage): [ok, text, reads, data], ok FALSE
\* standing for None, reads counting its reads of the stream and data being
\* the bytes it read
extract_text_from_file(file_storage, lib) ==
    LET filename == file_storage.filename
        rewound == seek(file_storage, 0)
        data == read(rewound).data
    IN IF EndsWith(filename, <<".", "p", "d", "f">>)
          \/ EndsWith(filename, <<".", "d", "o", "c", "x">>)
       THEN [ok |-> lib.ok, text |-> lib.text, reads |-> 1, data |-> <<data>>]
       ELSE IF EndsWith(filename, <<".", "t", "x", "t">>)
       THEN [ok |-> TRUE, text |-> DecodeIgnore(data), reads |-> 1, data |-> <<data>>]
       ELSE [ok |-> FALSE, text |-> <<>>, reads |-> 0, data |-> <<>>]

(***************************************************************************)
(* The prompt builders (server/prompts.py).  Each returns the list of the  *)
(* prompt's segments; the texts are strings.                               *)
(***************************************************************************)
\* the mark of a fenced block, three backquote characters, which a string
\* of this module cannot hold: written as three tildes
FenceMark == "~~~"

get_resume_feedback_prompt(target_role, resume_text) ==
    <<"You are an expert career advisor and resume reviewer.",
      "Analyze the following resume text for the target role for an ATS (Applicant Tracking System) and human recruiter:",
      "Target Role: " \o target_role \o "\n\n",
      "Resume Text:\n",
      FenceMark \o "\n",
      resume_text,
      "\n" \o FenceMark \o "\n\n",
      "Provide detailed feedback covering these areas:\n"
      \o "1.  **ATS Compatibility Score (1-100):** Estimate how well this resume would pass through an ATS for the target role. Explain your reasoning briefly.",
      "2.  **Strengths:** What are the strongest parts of this resume for this role?",
      "3.  **Areas for Improvement:** What specific sections or points could be improved? Be actionable.",
      "4.  **Keyword Analysis:** Are relevant keywords for the target role present? Suggest missing keywords if any.",
      "5.  **Overall Impression & Suggestions:** Give a final summary and any other critical advice.",
      "\nFormat your response clearly, using markdown for headings and lists.">>

get_role_suggestion_prompt(resume_text) ==
    <<"You are an expert career counselor and talent acquisition specialist.",
      "Based on the following resume text, identify the top 3-5 most suitable career roles for this individual. ",
      "For each suggested role, provide:",
      "   a. Role Title",
      "   b. A brief explanation (2-3 sentences) why this role is a good fit based on the resume.",
      "   c. Key skills from the resume that align with this role.",
      "   d. Potential industries where this role is common.",
      "\nResume Text:\n",
      FenceMark \o "\n",
      resume_text,
      "\n" \o FenceMark \o "\n\n",
      "Consider a diverse range of roles, including those that might be a slight pivot but leverage existing strengths.",
      "Format your response as a list of suggestions, using markdown for clarity (e.g., headings for each role).">>

get_career_exploration_prompt(career_field) ==
    <<"You are an expert career analyst and industry researcher.",
      "Generate a detailed report on the career field: '" \o career_field \o "'.",
      "The report should include the following sections:",
      "1.  **Overview:** A brief description of the field.",
      "2.  **Key Responsibilities:** Common tasks and duties.",
      "3.  **Required Skills:** Technical and soft skills needed.",
      "4.  **Educational Pathways:** Typical degrees or certifications.",
      "5.  **Salary Expectations:** General salary ranges (mention variability by location/experience).",
      "6.  **Career Outlook & Trends:** Future prospects and developments in the field.",
      "7.  **Pros & Cons:** Advantages and disadvantages of working in this field.",
      "8.  **Example Job Titles:** A few common job titles within this field.",
      "\nFormat the report clearly, using markdown for headings, lists, and emphasis.">>

(***************************************************************************)
(* generate_ai_content (server/utils.py).  remote is what the call to the  *)
(* remote model does: it raises, or it returns a response.                 *)
(***************************************************************************)
\* a handler of lines 181-185 that calls the model a second time before it
\* raises
Reraised_Retry(type) ==
    [ok |-> FALSE, calls |-> 2, status_code |-> 500,
     message |-> "AI content generation encountered an error: " \o type]

\* lines 181-185: whatever is raised inside the try, the handler's own
\* AIContentGenerationError included, is caught and replaced by an
\* AIContentGenerationError that names only the type of what was caught
Reraised(type) ==
    [ok |-> FALSE, calls |-> 1, status_code |-> 500,
     message |-> "AI content generation encountered an error: " \o type]

\* lines 173-179: what is raised for a response without text
NoTextError(remote) ==
    IF remote.block_reason # ""
    THEN [type |-> "AIContentGenerationError",
          message |-> "Content generation blocked by AI safety filters: "
                      \o (IF remote.block_reason_message # ""
                          THEN remote.block_reason_message ELSE remote.block_reason)]
    ELSE [type |-> "AIContentGenerationError",
          message |-> "AI response format not recognized or empty."]

\* generate_ai_content that calls the model without testing the instance:
\* None.generate_content raises AttributeError inside the try
generate_ai_content_Unchecked(gemini_model_instance, remote) ==
    IF ~gemini_model_instance
    THEN [ok |-> FALSE, calls |-> 0, status_code |-> 500,
          message |-> "AI content generation encountered an error: AttributeError"]
    ELSE IF remote.kind = "raises" THEN Reraised(remote.error)
    ELSE IF remote.text # <<>> THEN [ok |-> TRUE, calls |-> 1, text |-> remote.text]
    ELSE IF remote.text_raises THEN Reraised("ValueError")
    ELSE Reraised(NoTextError(remote).type)

\* the result: [ok, text] or the AIServiceError raised, [ok, message, status_code]
generate_ai_content(gemini_model_instance, remote) ==
    IF ~gemini_model_instance
    THEN [ok |-> FALSE, calls |-> 0, status_code |-> 503,
          message |-> "AI service (Gemini model instance) is not configured or unavailable."]
    ELSE IF remote.kind = "raises" THEN Reraised(remote.error)
    ELSE IF remote.text # <<>>
    THEN [ok |-> TRUE, calls |-> 1, text |-> remote.text]
    ELSE IF remote.text_raises
    THEN \* response.text raises ValueError when the response holds no part
         Reraised("ValueError")
    ELSE \* both raises of AIContentGenerationError (blocked, unrecognized) are
         \* inside the try and are caught by its `except Exception`
         Reraised(NoTextError(remote).type)

RemoteOutcomes ==
    {[kind |-> "raises", error |-> "ConnectionError"],
     [kind |-> "response", text |-> <<"o", "k">>, text_raises |-> FALSE,
      block_reason |-> "", block_reason_message |-> ""]}

\* what the remote model may do when called; without a configured model
\* instance no call is made (utils.py lines 155-156) and the outcome is moot
RemoteFor(gemini_model_instance) ==
    IF gemini_model_instance THEN RemoteOutcomes
    ELSE {[kind |-> "raises", error |-> "ConnectionError"]}

LibOutcomes == {[ok |-> TRUE, text |-> <<"c", "v">>]}

(***************************************************************************)
(* The AI routes (server/routes/ai_routes.py).                             *)
(***************************************************************************)
Fx(remote, extract, reads) ==
    [remote |-> remote, extract |-> extract, reads |-> reads, rollback |-> FALSE,
     read_data |-> <<>>]

\* the effects f with read_data, the bytes each read of the upload returned
ReadData(f, read_data) == [f EXCEPT !.read_data = read_data]

\* the effects f with the number of calls made to the remote model
Called(f, calls) == [f EXCEPT !.remote = calls]
AiDone(r, f) == [resp |-> r, fx |-> f]

\* a size test that also rejects a file of exactly the limit
TooLarge_AtLimit(file_bytes, max_file_bytes) == Len(file_bytes) >= max_file_bytes

\* lines 61 and 121: len(file_bytes) > max_file_bytes
TooLarge(file_bytes, max_file_bytes) == Len(file_bytes) > max_file_bytes

\* a test `if not resume_text`, which also declines the empty text
Declined_Falsy(resume_text) == ~resume_text.ok \/ resume_text.text = <<>>

\* lines 70 and 125: resume_text is None
Declined(resume_text) == ~resume_text.ok

\* lines 36-71 and 99-126: the upload checks and the extraction shared by
\* analyze-resume and suggest-roles under the configured ALLOWED_EXTENSIONS;
\* with_role is whether target_role is read
UploadChecksFor(allowed_extensions, file, target_role, with_role, lib) ==
    IF file = Absent
    THEN [done |-> TRUE, resp |-> make_error_response(
              "No resume file provided ('resume_file' field missing)", 400), fx |-> NoFx]
    ELSE IF file.filename = <<>>
    THEN [done |-> TRUE, resp |-> make_error_response("No file selected for upload", 400),
          fx |-> NoFx]
    ELSE IF ~allowed_file(file.filename, allowed_extensions)
    THEN [done |-> TRUE, resp |-> make_error_response(
              "Invalid file type. Allowed types: pdf, docx, txt", 400), fx |-> NoFx]
    ELSE LET sized == read(Open(file))          \* file_bytes = file.read()
             file_bytes == sized.data
             rewound == seek(sized.file, 0)     \* file.seek(0)
             size_read == ReadData(Fx(0, 0, 1), <<file_bytes>>)
         IN IF TooLarge(file_bytes, MaxFileSizeBytes)
            THEN [done |-> TRUE, resp |-> make_error_response(
                      "File exceeds maximum size of 10MB", 413), fx |-> size_read]
            ELSE IF with_role /\ target_role = <<>>
            THEN [done |-> TRUE, resp |-> make_error_response("Target role is required", 400),
                  fx |-> size_read]
            ELSE IF with_role /\ Len(target_role) > MAX_TARGET_ROLE_LENGTH
            THEN [done |-> TRUE, resp |-> make_error_response(
                      "Target role exceeds maximum length of 150 characters", 400),
                  fx |-> size_read]
            ELSE LET resume_text == extract_text_from_file(rewound, lib)
                     both_reads == ReadData(Fx(0, 1, 1 + resume_text.reads),
                                            <<file_bytes>> \o resume_text.data)
                 IN IF Declined(resume_text)
                    THEN [done |-> TRUE, resp |-> make_error_response(
                              "Could not extract text from file. It might be corrupted or an unsupported format variant.",
                              400), fx |-> both_reads]
                    ELSE [done |-> FALSE, text |-> resume_text.text, fx |-> both_reads]

\* the upload checks under the default ALLOWED_EXTENSIONS
UploadChecks(file, target_role, with_role, lib) ==
    UploadChecksFor(ALLOWED_EXTENSIONS, file, target_role, with_role, lib)

\* lines 79-81: an AIServiceError becomes make_error_response(str(e), e.status_code)
AiFailure(g, f) ==
    AiDone(make_error_response(g.message, g.status_code), Called(f, g.calls))

analyze_resume_route_for(allowed_extensions, token, file, target_role, gemini_model_instance, lib, remote) ==
    IF ~jwt_required(token) THEN AiDone(Unauthorized, NoFx)
    ELSE LET c == UploadChecksFor(allowed_extensions, file, target_role, TRUE, lib)
         IN IF c.done THEN AiDone(c.resp, c.fx)
            ELSE LET g == generate_ai_content(gemini_model_instance, remote)
                 IN IF g.ok
                    THEN AiDone(Json([analysis |-> g.text], 200), Called(c.fx, g.calls))
                    ELSE AiFailure(g, c.fx)

analyze_resume_route(token, file, target_role, gemini_model_instance, lib, remote) ==
    analyze_resume_route_for(ALLOWED_EXTENSIONS, token, file, target_role,
                             gemini_model_instance, lib, remote)

suggest_roles_route_for(allowed_extensions, token, file, gemini_model_instance, lib, remote) ==
    IF ~jwt_required(token) THEN AiDone(Unauthorized, NoFx)
    ELSE LET c == UploadChecksFor(allowed_extensions, file, <<>>, FALSE, lib)
         IN IF c.done THEN AiDone(c.resp, c.fx)
            ELSE LET g == generate_ai_content(gemini_model_instance, remote)
                 IN IF g.ok
                    THEN AiDone(Json([suggestions |-> g.text], 200), Called(c.fx, g.calls))
                    ELSE AiFailure(g, c.fx)

suggest_roles_route(token, file, gemini_model_instance, lib, remote) ==
    suggest_roles_route_for(ALLOWED_EXTENSIONS, token, file, gemini_model_instance, lib, remote)

explore_career_path_route(token, body, gemini_model_instance, remote) ==
    LET Failed == AiDone(make_error_response(
            "An unexpected server error occurred during career path exploration.", 500), NoFx)
    IN IF ~jwt_required(token) THEN AiDone(Unauthorized, NoFx)
       ELSE IF body = NoJson THEN Failed       \* get_json() raises
       ELSE IF IsNull(body)
       THEN AiDone(make_error_response("Invalid or missing JSON request body.", 400), NoFx)
       ELSE IF ~IsObj(body) THEN Failed        \* data.get raises AttributeError
       ELSE LET career_field == Get(body, "career_field")
            IN IF ~Truthy(career_field)
               THEN AiDone(make_error_response("career_field is required", 400), NoFx)
               ELSE IF ~HasLen(career_field) THEN Failed
               ELSE IF PyLen(career_field) > MAX_CAREER_FIELD_LENGTH
               THEN AiDone(make_error_response(
                        "Career field name exceeds maximum length of 150 characters", 400), NoFx)
               ELSE LET g == generate_ai_content(gemini_model_instance, remote)
                    IN IF g.ok
                       THEN AiDone(Json([career_field |-> career_field, report |-> g.text], 200),
                                   Fx(g.calls, 0, 0))
                       ELSE AiFailure(g, NoFx)

(***************************************************************************)
(* A commit the store refuses (the database is locked, the disk is full):  *)
(* db.session.commit() raises OperationalError, nothing of the transaction *)
(* is committed, and the handler's `except SQLAlchemyError` block answers. *)
(***************************************************************************)
\* an except block that answers without db.session.rollback()
CommitFailed_NoRollback(message) == [resp |-> make_error_response(message, 500), fx |-> NoFx]

\* db.session.rollback(), then make_error_response(message, 500)
CommitFailed(message) == [resp |-> make_error_response(message, 500), fx |-> RolledBack]

\* register_user whose commit the store refuses (lines 57-65)
register_user_commit_fails(us, body) ==
    LET c == RegisterCheck(us, body)
        f == CommitFailed("Registration failed due to a database error.")
    IN IF c.done THEN [users |-> us, resp |-> c.resp, fx |-> c.fx]
       ELSE [users |-> us, resp |-> f.resp, fx |-> f.fx]

\* save_career_path_route whose commit the store refuses (lines 57-65)
save_career_path_route_commit_fails(us, ps, token, body) ==
    LET out == save_career_path_route(us, ps, token, body)
        f == CommitFailed("Failed to save career path due to a database error.")
    IN IF out.resp.status = 201 THEN Out(ps, f.resp, f.fx) ELSE out

\* delete_career_path_route whose commit the store refuses (lines 127-135)
delete_career_path_route_commit_fails(ps, token, path_id) ==
    LET out == delete_career_path_route(ps, token, path_id)
        f == CommitFailed("Failed to delete career path due to a database error.")
    IN IF out.resp.status = 200 THEN Out(ps, f.resp, f.fx) ELSE out

(***************************************************************************)
(* The requests clients send.                                              *)
(***************************************************************************)
\* the bearer tokens a request may carry: none, a malformed one, one signed
\* with another key, an expired one, and the token login issues for a stored
\* user (tokens are stateless: the server keeps no record of those it issued)
InvalidTokens ==
    {NoToken, Malformed, [kind |-> "badsig", sub |-> <<"1">>],
     [kind |-> "expired", sub |-> <<"1">>]}
ValidTokens == {create_access_token(PyStr(u.id)) : u \in users}
Tokens == InvalidTokens \cup ValidTokens

DetailsK1 == JDict(<< <<<<"k">>, JNum(1)>> >>)

SaveBodies ==
    {NoJson, JNull,
     MkObj([path_name |-> Absent, path_details_json |-> DetailsK1]),
     MkObj([path_name |-> JStr(<<"X">>), path_details_json |-> DetailsK1])}

PathIds == 1..(MaxPathId + 1)

Bytes(n) == [i \in 1..n |-> 104]

Uploads ==
    {Absent,
     [filename |-> <<"c", "v", ".", "t", "x", "t">>, bytes |-> Bytes(MaxFileSizeBytes)]}

TargetRoles == {<<"d", "e", "v">>}

ExploreBodies == {JNull, MkObj([career_field |-> JStr(<<"a", "i">>)])}

Idle == [pc |-> "idle"]

(***************************************************************************)
(* The state machine.                                                      *)
(***************************************************************************)
Init ==
    /\ users = {}
    /\ paths = {}
    /\ req = [op |-> "none"]
    /\ resp = [status |-> 0, json |-> FALSE, body |-> [none |-> TRUE]]
    /\ fx = NoFx
    /\ registered = {}
    /\ saved_by = {}
    /\ pend = [p \in Procs |-> Idle]

\* what a 201 of register adds to the history
Registration(body, r) ==
    IF r.status = 201
    THEN {[email |-> Get(body, "email").str, password |-> Get(body, "password").str,
           user_id |-> r.body.user_id]}
    ELSE {}

\* one request to POST /api/register
RegisterReq(body) ==
    LET out == register_user(users, body)
    IN /\ users' = out.users
       /\ req' = [op |-> "register", body |-> body]
       /\ resp' = out.resp
       /\ fx' = out.fx
       /\ registered' = registered \cup Registration(body, out.resp)
       /\ UNCHANGED <<paths, saved_by, pend>>

Register == \E body \in AuthBodies : RegisterReq(body)

\* one request to POST /api/login
LoginReq(body) ==
    /\ req' = [op |-> "login", body |-> body]
    /\ resp' = login_user(users, body)
    /\ fx' = NoFx
    /\ UNCHANGED <<users, paths, registered, saved_by, pend>>

Login == \E body \in AuthBodies : LoginReq(body)

\* one request to POST /api/save-path
SavePathReq(token, body) ==
    LET out == save_career_path_route(users, paths, token, body)
    IN /\ \A p \in out.paths : p.id <= MaxPathId
       /\ paths' = out.paths
       /\ req' = [op |-> "save-path", token |-> token, body |-> body]
       /\ resp' = out.resp
       /\ fx' = out.fx
       /\ saved_by' = IF out.resp.status = 201
                      THEN saved_by \cup {<<out.resp.body.path_id, token.sub, body>>}
                      ELSE saved_by
       /\ UNCHANGED <<users, registered, pend>>

SavePath == \E token \in Tokens, body \in SaveBodies : SavePathReq(token, body)

\* one request to GET /api/user/paths
ListPathsReq(token) ==
    /\ req' = [op |-> "list-paths", token |-> token]
    /\ resp' = get_user_paths_route(users, paths, token)
    /\ fx' = NoFx
    /\ UNCHANGED <<users, paths, registered, saved_by, pend>>

ListPaths == \E token \in Tokens : ListPathsReq(token)

DeletePath ==
    \E token \in Tokens, path_id \in PathIds :
        LET out == delete_career_path_route(paths, token, path_id)
        IN /\ paths' = out.paths
           /\ req' = [op |-> "delete-path", token |-> token, path_id |-> path_id]
           /\ resp' = out.resp
           /\ fx' = out.fx
           /\ saved_by' = IF out.resp.status = 200
                          THEN {s \in saved_by : s[1] # path_id}
                          ELSE saved_by
           /\ UNCHANGED <<users, registered, pend>>

\* one request to POST /api/analyze-resume; lib is what the document
\* library would do with the upload and remote what the AI service would do
AnalyzeResumeReq(token, file, target_role, gemini_model_instance, lib, remote) ==
    LET out == analyze_resume_route(token, file, target_role,
                                    gemini_model_instance, lib, remote)
    IN /\ req' = [op |-> "analyze-resume", token |-> token, file |-> file,
                  target_role |-> target_role, model |-> gemini_model_instance,
                  lib |-> lib, remote |-> remote]
       /\ resp' = out.resp
       /\ fx' = out.fx
       /\ UNCHANGED <<users, paths, registered, saved_by, pend>>

AnalyzeResume ==
    \E token \in Tokens, file \in Uploads, target_role \in TargetRoles,
       gemini_model_instance \in BOOLEAN, lib \in LibOutcomes :
      \E remote \in RemoteFor(gemini_model_instance) :
        AnalyzeResumeReq(token, file, target_role, gemini_model_instance, lib, remote)

\* one request to POST /api/suggest-roles
SuggestRolesReq(token, file, gemini_model_instance, lib, remote) ==
    LET out == suggest_roles_route(token, file, gemini_model_instance, lib, remote)
    IN /\ req' = [op |-> "suggest-roles", token |-> token, file |-> file,
                  model |-> gemini_model_instance, lib |-> lib, remote |-> remote]
       /\ resp' = out.resp
       /\ fx' = out.fx
       /\ UNCHANGED <<users, paths, registered, saved_by, pend>>

SuggestRoles ==
    \E token \in Tokens, file \in Uploads,
       gemini_model_instance \in BOOLEAN, lib \in LibOutcomes :
      \E remote \in RemoteFor(gemini_model_instance) :
        SuggestRolesReq(token, file, gemini_model_instance, lib, remote)

\* one request to POST /api/explore-path
ExplorePathReq(token, body, gemini_model_instance, remote) ==
    LET out == explore_career_path_route(token, body, gemini_model_instance, remote)
    IN /\ req' = [op |-> "explore-path", token |-> token, body |-> body,
                  model |-> gemini_model_instance, remote |-> remote]
       /\ resp' = out.resp
       /\ fx' = out.fx
       /\ UNCHANGED <<users, paths, registered, saved_by, pend>>

ExplorePath ==
    \E token \in Tokens, body \in ExploreBodies,
       gemini_model_instance \in BOOLEAN :
      \E remote \in RemoteFor(gemini_model_instance) :
        ExplorePathReq(token, body, gemini_model_instance, remote)

\* the handlers of the blueprint application, one request at a time
Next ==
    \/ Register
    \/ Login
    \/ SavePath
    \/ ListPaths
    \/ DeletePath
    \/ AnalyzeResume
    \/ SuggestRoles
    \/ ExplorePath

Spec == Init /\ [][Next]_vars

(***************************************************************************)
(* DELETE /api/delete-path/<id> of server/app.py next to the blueprint     *)
(* application, over the same store.  The handler reads no token; the one  *)
(* the client sent is kept in req.                                         *)
(***************************************************************************)
AppDeletePath ==
    \E token \in Tokens, path_id \in PathIds :
        LET out == delete_career_path(paths, path_id)
        IN /\ paths' = out.paths
           /\ req' = [op |-> "app.delete-path", token |-> token, path_id |-> path_id]
           /\ resp' = out.resp
           /\ fx' = out.fx
           /\ saved_by' = IF out.resp.status = 200
                          THEN {s \in saved_by : s[1] # path_id}
                          ELSE saved_by
           /\ UNCHANGED <<users, registered, pend>>

NextApp == Next \/ AppDeletePath

SpecApp == Init /\ [][NextApp]_vars

(***************************************************************************)
(* Concurrent register requests: each worker runs the handler in two       *)
(* steps, the existence query (with validation and hashing) and the        *)
(* commit; the store serializes the commits.                               *)
(***************************************************************************)
RegisterBegin(p) ==
    /\ pend[p] = Idle
    /\ \E body \in AuthBodies :
          LET c == RegisterCheck(users, body)
          IN IF c.done
             THEN /\ req' = [op |-> "register", body |-> body]
                  /\ resp' = c.resp
                  /\ fx' = c.fx
                  /\ UNCHANGED pend
             ELSE /\ pend' = [pend EXCEPT ![p] = [pc |-> "commit", body |-> body,
                                                  email |-> c.email,
                                                  password_hash |-> c.password_hash]]
                  /\ UNCHANGED <<req, resp, fx>>
    /\ UNCHANGED <<users, paths, registered, saved_by>>

RegisterFinish(p) ==
    /\ pend[p] # Idle
    /\ LET out == RegisterCommit(users, pend[p].email, pend[p].password_hash)
       IN /\ users' = out.users
          /\ req' = [op |-> "register", body |-> pend[p].body]
          /\ resp' = out.resp
          /\ fx' = out.fx
          /\ registered' = registered \cup Registration(pend[p].body, out.resp)
    /\ pend' = [pend EXCEPT ![p] = Idle]
    /\ UNCHANGED <<paths, saved_by>>

NextConc == \E p \in Procs : RegisterBegin(p) \/ RegisterFinish(p)

SpecConc == Init /\ [][NextConc]_vars

(***************************************************************************)
(* Properties.                                                             *)
(***************************************************************************)
ReqEmail == Get(req.body, "email").str
ReqPassword == Get(req.body, "password").str

\* a login body whose fields are strings that pass login's checks
LoginWellFormed(body) ==
    /\ IsObj(body)
    /\ IsStr(Get(body, "email")) /\ IsStr(Get(body, "password"))
    /\ Len(Get(body, "password").str) > 0
    /\ is_valid_email(Get(body, "email").str)
    /\ Len(Get(body, "email").str) <= MAX_INPUT_STRING_LENGTH

\* C1: delete-path with a valid token of user A for an existing path owned
\* by another user B is answered 403 and removes nothing, whichever of the
\* two users' paths was created first.
C1_NonOwnerDeleteForbidden ==
    [][(/\ req'.op = "delete-path"
        /\ req'.token.kind = "valid"
        /\ \E p \in paths : p.id = req'.path_id /\ p.user_id # PyInt(req'.token.sub))
       => (resp'.status = 403 /\ paths' = paths)]_vars

C1_Witness ==
    /\ req.op = "delete-path"
    /\ req.token.kind = "valid"
    /\ resp.status = 403
    /\ \E p, q \in paths :
          /\ p.id = req.path_id
          /\ p.user_id # PyInt(req.token.sub)
          /\ q.user_id = PyInt(req.token.sub)

\* C2: a saved path is removed only by a delete request whose acting user
\* (the identity of its verified token) is the path's owner, over the delete
\* handlers of routes/path_routes.py and of app.py.
C2_OnlyOwnerDeletes ==
    [][\A p \in paths :
          p \notin paths' =>
             /\ req'.op \in {"delete-path", "app.delete-path"}
             /\ req'.path_id = p.id
             /\ req'.token.kind = "valid"
             /\ PyInt(req'.token.sub) = p.user_id]_vars

\* C3: of two successive well-formed register requests with one email the
\* first (the email being free) is answered 201 and the second 409; after it
\* there is one user with that email, and it keeps the first password.
C3_RegisterTwice ==
    [][(req'.op = "register" /\ WellFormed(req'.body))
       => LET e == Get(req'.body, "email").str
              pw == Get(req'.body, "password").str
              earlier == {r \in registered : r.email = e}
          IN IF earlier = {}
             THEN /\ resp'.status = 201
                  /\ registered' = registered \cup
                        {[email |-> e, password |-> pw, user_id |-> resp'.body.user_id]}
                  /\ Cardinality(UsersByEmail(users', e)) = 1
             ELSE /\ resp'.status = 409
                  /\ users' = users
                  /\ Cardinality(UsersByEmail(users', e)) = 1
                  /\ \A u \in UsersByEmail(users', e) : \A r \in earlier :
                        check_password_hash(u.password_hash, r.password)]_vars

C3_Witness ==
    /\ req.op = "register"
    /\ WellFormed(req.body)
    /\ resp.status = 409
    /\ \E r \in registered : r.email = ReqEmail /\ r.password # ReqPassword

\* C4: whatever the interleaving of concurrent register requests, no two
\* users have the same email.
C4_EmailUnique == \A u, v \in users : u.email = v.email => u = v

C4_Witness ==
    /\ req.op = "register"
    /\ WellFormed(req.body)
    /\ resp.status = 500
    /\ fx.rollback
    /\ UsersByEmail(users, ReqEmail) # {}

\* C5: a well-formed register request that creates no user because its
\* email is held by a stored user is answered 409, also when the email was
\* taken between its existence query and its commit.
C5_TakenEmailAnswered409 ==
    (/\ req.op = "register"
     /\ WellFormed(req.body)
     /\ resp.status # 201
     /\ UsersByEmail(users, ReqEmail) # {})
    => resp.status = 409

\* C6: login with a registered email and a wrong password, and login with
\* an unregistered email, get the same response, a 401.
C6_LoginUniformRejection ==
    \A b1, b2 \in AuthBodies :
        (/\ LoginWellFormed(b1) /\ LoginWellFormed(b2)
         /\ UsersByEmail(users, Get(b1, "email").str) # {}
         /\ \A u \in UsersByEmail(users, Get(b1, "email").str) :
               ~check_password_hash(u.password_hash, Get(b1, "password").str)
         /\ UsersByEmail(users, Get(b2, "email").str) = {})
        => /\ login_user(users, b1) = login_user(users, b2)
           /\ login_user(users, b1).status = 401

C6_Witness ==
    /\ req.op = "login"
    /\ LoginWellFormed(req.body)
    /\ resp.status = 401
    /\ UsersByEmail(users, ReqEmail) # {}
    /\ \E b2 \in AuthBodies :
          LoginWellFormed(b2) /\ UsersByEmail(users, Get(b2, "email").str) = {}

\* C7: after register answered 201 with user_id u for (e, p), every login
\* with (e, p) is answered 200 with user_id u and a token whose identity is
\* u, whatever requests came in between.
C7_RegisteredCanLogin ==
    (req.op = "login" /\ LoginWellFormed(req.body))
    => \A r \in registered :
          (r.email = ReqEmail /\ r.password = ReqPassword)
          => /\ resp.status = 200
             /\ resp.body.user_id = r.user_id
             /\ VerifyToken(resp.body.access_token).ok
             /\ VerifyToken(resp.body.access_token).identity = PyStr(r.user_id)

C7_Witness ==
    /\ req.op = "login"
    /\ resp.status = 200
    /\ Cardinality(users) = 2
    /\ paths # {}
    /\ \E r \in registered : r.email = ReqEmail /\ r.password = ReqPassword

\* C8: a request to one of the six protected endpoints without a valid
\* token (missing, malformed, expired, badly signed) is answered 401,
\* changes no row and calls the AI model not once.
Protected ==
    {"analyze-resume", "suggest-roles", "explore-path", "save-path", "list-paths", "delete-path"}

C9_DeleteMissingIs404 ==
    [][(/\ req'.op = "delete-path"
        /\ req'.token.kind = "valid"
        /\ GetPath(paths, req'.path_id) = {})
       => (resp'.status = 404 /\ paths' = paths /\ users' = users)]_vars

C9_Witness ==
    /\ req.op = "delete-path"
    /\ req.token.kind = "valid"
    /\ resp.status = 404
    /\ GetPath(paths, req.path_id) = {}
    /\ \E p \in paths : p.user_id = PyInt(req.token.sub)

\* C10: the list endpoint with A's token returns exactly the live paths
\* that were saved with A's token, each with user_id A.
C10_ListIsOwnLivePaths ==
    (req.op = "list-paths" /\ req.token.kind = "valid")
    => /\ resp.status = 200
       /\ LET listed == resp.body.paths
              mine == {s[1] : s \in {t \in saved_by : t[2] = req.token.sub}}
          IN /\ {listed[i].id : i \in 1..Len(listed)} = mine
             /\ Len(listed) = Cardinality(mine)
             /\ \A i \in 1..Len(listed) :
                   /\ listed[i].user_id = PyInt(req.token.sub)
                   /\ \E p \in paths : to_dict(p) = listed[i]

C10_Witness ==
    /\ req.op = "list-paths"
    /\ req.token.kind = "valid"
    /\ resp.status = 200
    /\ Len(resp.body.paths) = 1
    /\ Cardinality(paths) = 2

(***************************************************************************)
(* Saved path details: one user saving paths whose details range over      *)
(* JSON values, and listing them.                                          *)
(***************************************************************************)
MaxDetailPaths == 2

NameX == <<"X">>
QuotedText == <<"a", Quote, Backslash>>

\* the details a client may send: null, the falsy values, and nested ones
DetailsValues ==
    {JNull, JDict(<<>>), JArr(<<>>), JNum(0), JBool(FALSE), JStr(<<>>),
     DetailsK1, JStr(QuotedText),
     JArr(<<JNum(10), JBool(TRUE), JNull>>),
     JDict(<< <<<<"k">>, JDict(<< <<<<"j">>, JArr(<<JStr(<<>>)>>)>> >>)>>,
              <<<<"l">>, JNum(0)>> >>)}

DetailsBodies ==
    {MkObj([path_name |-> JStr(NameX), path_details_json |-> v]) : v \in DetailsValues}
    \cup {MkObj([path_name |-> JStr(NameX)]),
          MkObj([path_name |-> JStr(NameX), path_details |-> DetailsK1])}

DetailsUser == MkObj([email |-> JStr(EmailA), password |-> JStr(Pw1)])

DetailsRegister == RegisterReq(DetailsUser)

DetailsSave ==
    \E token \in ValidTokens, body \in DetailsBodies :
        /\ Cardinality(paths) < MaxDetailPaths
        /\ SavePathReq(token, body)

DetailsList == \E token \in ValidTokens : ListPathsReq(token)

NextDetails == DetailsRegister \/ DetailsSave \/ DetailsList

SpecDetails == Init /\ [][NextDetails]_vars

\* the entries of a list response that stand for the path with the given id
Entries(listed, path_id) == {i \in 1..Len(listed) : listed[i].id = path_id}

\* the saves of the history made with the token of the current request
OwnSaves == {s \in saved_by : s[2] = req.token.sub}

BodyXK1(key) ==
    JObj([k \in {"path_name", key} |-> IF k = "path_name" THEN JStr(NameX) ELSE DetailsK1])

\* C11 as stated: save-path with {"path_name": "X", "path_details": {"k": 1}}
\* is answered 201 and the following list returns its entry with path_name
\* "X" and a path_details field equal to {"k": 1}.
C11_DetailsUnderPathDetails ==
    /\ (req.op = "save-path" /\ req.token.kind = "valid" /\ req.body = BodyXK1("path_details"))
       => resp.status = 201
    /\ (req.op = "list-paths" /\ req.token.kind = "valid")
       => \A s \in OwnSaves :
             s[3] = BodyXK1("path_details")
             => \E i \in Entries(resp.body.paths, s[1]) :
                   LET e == resp.body.paths[i]
                   IN /\ e.path_name = NameX
                      /\ "path_details" \in DOMAIN e
                      /\ e.path_details = DetailsK1

\* C11 amended: the same with the details under the key path_details_json,
\* in the request and in the listed entry.
C11_DetailsUnderPathDetailsJson ==
    /\ (req.op = "save-path" /\ req.token.kind = "valid"
        /\ req.body = BodyXK1("path_details_json"))
       => resp.status = 201
    /\ (req.op = "list-paths" /\ req.token.kind = "valid")
       => /\ resp.status = 200
          /\ \A s \in OwnSaves :
                s[3] = BodyXK1("path_details_json")
                => /\ Cardinality(Entries(resp.body.paths, s[1])) = 1
                   /\ \A i \in Entries(resp.body.paths, s[1]) :
                         LET e == resp.body.paths[i]
                         IN /\ e.path_name = NameX
                            /\ e.path_details_json = DetailsK1

C11_Witness ==
    /\ req.op = "list-paths"
    /\ resp.status = 200
    /\ Len(resp.body.paths) = 1
    /\ \E s \in OwnSaves : s[3] = BodyXK1("path_details_json")

\* C12: a non-null details value saved through save-path (the falsy {}, [],
\* 0, false and "" included) is listed deep-equal to what was sent, a null
\* or absent one is listed as null, and every stored text decodes.
C12_DetailsRoundTrip ==
    /\ \A p \in paths : p.details = SqlNull \/ json_loads(p.details.text).ok
    /\ (req.op = "list-paths" /\ req.token.kind = "valid")
       => \A s \in OwnSaves :
             /\ Entries(resp.body.paths, s[1]) # {}
             /\ \A i \in Entries(resp.body.paths, s[1]) :
                   resp.body.paths[i].path_details_json = Get(s[3], "path_details_json")

C12_Witness ==
    /\ req.op = "list-paths"
    /\ resp.status = 200
    /\ \E s, t \in OwnSaves :
          /\ Get(s[3], "path_details_json") = JBool(FALSE)
          /\ Get(t[3], "path_details_json") = JStr(QuotedText)
          /\ \E i \in Entries(resp.body.paths, t[1]) :
                resp.body.paths[i].path_details_json = JStr(QuotedText)

(***************************************************************************)
(* The AI endpoints: one registered user sending uploads and bodies of     *)
(* every kind, with the document library and the remote model behaving in  *)
(* each of the ways they can.                                              *)
(***************************************************************************)
AiFilenames ==
    {<<"c", "v">>,
     <<"c", "v", ".", "e", "x", "e">>,
     <<"c", "v", ".">>,
     <<"c", "v", ".", "t", "x", "t", ".", "e", "x", "e">>,
     <<"c", "v", ".", "t", "x", "t">>,
     <<"c", "v", ".", "p", "d", "f">>,
     <<"c", "v", ".", "T", "X", "T">>}

AiUploads ==
    {Absent, [filename |-> <<>>, bytes |-> Bytes(MaxFileSizeBytes)]}
    \cup {[filename |-> n, bytes |-> Bytes(k)] :
             n \in AiFilenames, k \in {MaxFileSizeBytes, MaxFileSizeBytes + 1}}

AiTargetRoles == {<<>>, <<"d", "e", "v">>}

AiExploreBodies == {JNull, MkObj([career_field |-> Absent]),
                    MkObj([career_field |-> JStr(<<"a", "i">>)])}

\* what the PDF reader may make of an upload: text, or an exception
AiLibFor(file) ==
    IF file # Absent /\ EndsWith(file.filename, <<".", "p", "d", "f">>)
    THEN {[ok |-> TRUE, text |-> <<"c", "v">>], [ok |-> FALSE, text |-> <<>>]}
    ELSE {[ok |-> TRUE, text |-> <<"c", "v">>]}

OkRemote ==
    [kind |-> "response", text |-> <<"o", "k">>, text_raises |-> FALSE,
     block_reason |-> "", block_reason_message |-> ""]

NoText(text_raises, block_reason, block_reason_message) ==
    [kind |-> "response", text |-> <<>>, text_raises |-> text_raises,
     block_reason |-> block_reason, block_reason_message |-> block_reason_message]

\* what the remote model may do when called
AiRemotes ==
    {[kind |-> "raises", error |-> "ConnectionError"],
     OkRemote,
     NoText(FALSE, "", ""),
     NoText(TRUE, "", ""),
     NoText(FALSE, "SAFETY", ""),
     NoText(FALSE, "SAFETY", "unsafe prompt")}

AiRemoteFor(gemini_model_instance) ==
    IF gemini_model_instance THEN AiRemotes
    ELSE {[kind |-> "raises", error |-> "ConnectionError"]}

AiRegister == RegisterReq(DetailsUser)

AiAnalyzeResume ==
    \E token \in ValidTokens, file \in AiUploads, target_role \in AiTargetRoles,
       gemini_model_instance \in BOOLEAN :
      \E lib \in AiLibFor(file), remote \in AiRemoteFor(gemini_model_instance) :
        AnalyzeResumeReq(token, file, target_role, gemini_model_instance, lib, remote)

AiSuggestRoles ==
    \E token \in ValidTokens, file \in AiUploads, gemini_model_instance \in BOOLEAN :
      \E lib \in AiLibFor(file), remote \in AiRemoteFor(gemini_model_instance) :
        SuggestRolesReq(token, file, gemini_model_instance, lib, remote)

AiExplorePath ==
    \E token \in ValidTokens, body \in AiExploreBodies, gemini_model_instance \in BOOLEAN :
      \E remote \in AiRemoteFor(gemini_model_instance) :
        ExplorePathReq(token, body, gemini_model_instance, remote)

NextAi == AiRegister \/ AiAnalyzeResume \/ AiSuggestRoles \/ AiExplorePath

SpecAi == Init /\ [][NextAi]_vars

UploadOps == {"analyze-resume", "suggest-roles"}
AiOps == UploadOps \cup {"explore-path"}

\* the current request is an authenticated upload with a named file
NamedUpload ==
    /\ req.op \in UploadOps
    /\ req.token.kind = "valid"
    /\ req.file # Absent
    /\ req.file.filename # <<>>

HasDot(name) == \E i \in 1..Len(name) : name[i] = "."

\* the name has an extension and, case aside, it is an allowed one
AllowedName(name) == HasDot(name) /\ PyLower(AfterLastDot(name)) \in ALLOWED_EXTENSIONS

\* C13: an authenticated upload to analyze-resume or suggest-roles whose
\* filename has no extension, or one outside the allowed set, is answered
\* 400 without the bytes being read, text being extracted or the AI model
\* being called.
C13_BadExtensionRejectedEarly ==
    (NamedUpload /\ ~AllowedName(req.file.filename))
    => /\ resp.status = 400
       /\ fx.reads = 0
       /\ fx.extract = 0
       /\ fx.remote = 0

C13_Witness ==
    /\ NamedUpload
    /\ req.op = "suggest-roles"
    /\ req.file.filename = <<"c", "v", ".", "t", "x", "t", ".", "e", "x", "e">>
    /\ req.model /\ req.remote = OkRemote
    /\ resp.status = 400
    /\ fx.reads = 0

\* the checks after the size check pass and the model answers with text
LaterStepsPass ==
    /\ req.op = "analyze-resume"
       => (req.target_role # <<>> /\ Len(req.target_role) <= MAX_TARGET_ROLE_LENGTH)
    /\ \/ EndsWith(req.file.filename, <<".", "t", "x", "t">>)
       \/ (EndsWith(req.file.filename, <<".", "p", "d", "f">>) /\ req.lib.ok)
    /\ req.model
    /\ req.remote.kind = "response"
    /\ req.remote.text # <<>>

\* C14: with an allowed extension, an upload of exactly the byte limit is
\* not rejected for its size and succeeds when the later checks pass; one
\* byte more is answered 413, also when target_role is missing.
C14_SizeLimitInclusive ==
    (NamedUpload /\ AllowedName(req.file.filename))
    => /\ Len(req.file.bytes) = MaxFileSizeBytes + 1 => resp.status = 413
       /\ Len(req.file.bytes) = MaxFileSizeBytes
          => /\ resp.status # 413
             /\ LaterStepsPass => resp.status = 200

C14_Witness ==
    /\ NamedUpload
    /\ req.op = "analyze-resume"
    /\ AllowedName(req.file.filename)
    /\ Len(req.file.bytes) = MaxFileSizeBytes + 1
    /\ req.target_role = <<>>
    /\ resp.status = 413

\* the current request, were a model configured and answering with text,
\* would be answered 200
ValidAiRequest ==
    /\ req.op \in AiOps
    /\ req.token.kind = "valid"
    /\ IF req.op = "analyze-resume"
       THEN analyze_resume_route(req.token, req.file, req.target_role,
                                 TRUE, req.lib, OkRemote).resp.status = 200
       ELSE IF req.op = "suggest-roles"
       THEN suggest_roles_route(req.token, req.file, TRUE, req.lib, OkRemote).resp.status = 200
       ELSE explore_career_path_route(req.token, req.body, TRUE, OkRemote).resp.status = 200

\* C15: with no model instance configured, an AI request that passes
\* authentication and input validation is answered 503 with an error
\* field, and the remote model is not called.
C15_UnconfiguredIs503 ==
    (ValidAiRequest /\ ~req.model)
    => /\ resp.status = 503
       /\ "error" \in DOMAIN resp.body
       /\ fx.remote = 0

C15_Witness ==
    /\ ValidAiRequest
    /\ req.op = "analyze-resume"
    /\ ~req.model
    /\ resp.status = 503
    /\ fx.extract = 1

Contains(s, sub) == \E i \in 1..(Len(s) - Len(sub) + 1) : SubSeq(s, i, i + Len(sub) - 1) = sub

\* C16: when the remote model returns no text and reports a block reason,
\* the error message of the 500 response contains that block reason (its
\* message when one is given).
C16_BlockReasonReported ==
    (/\ req.op \in AiOps
     /\ fx.remote = 1
     /\ req.remote.kind = "response"
     /\ req.remote.text = <<>>
     /\ ~req.remote.text_raises
     /\ req.remote.block_reason # "")
    => /\ resp.status = 500
       /\ Contains(resp.body.error,
                   IF req.remote.block_reason_message # ""
                   THEN req.remote.block_reason_message ELSE req.remote.block_reason)

(***************************************************************************)
(* Every endpoint under inputs of every shape and of the boundary          *)
(* lengths, and under a store that refuses a commit.                       *)
(***************************************************************************)
Rep(c, n) == [i \in 1..n |-> c]

\* 256 characters that match EMAIL_REGEX
LongEmail == Rep("a", MAX_INPUT_STRING_LENGTH - 3) \o <<"@", "b", ".", "c">>

InputAuthBodies ==
    {NoJson, JNull, JArr(<<>>),
     MkObj([email |-> JNum(5), password |-> JStr(Pw1)]),
     MkObj([email |-> JStr(EmailA), password |-> JNum(123456)]),
     MkObj([email |-> JStr(LongEmail), password |-> JStr(Pw1)])}
    \cup {MkObj([email |-> JStr(EmailA), password |-> JStr(p)]) :
             p \in {PwShort, Pw1, Rep("p", MAX_INPUT_STRING_LENGTH),
                    Rep("p", MAX_INPUT_STRING_LENGTH + 1)}}

InputSaveBodies ==
    {NoJson, JNull, JArr(<<>>), MkObj([path_name |-> JNum(5)])}
    \cup {MkObj([path_name |-> JStr(n)]) :
             n \in {<<>>, NameX, Rep("n", MAX_PATH_NAME_LENGTH),
                    Rep("n", MAX_PATH_NAME_LENGTH + 1)}}

InputExploreBodies ==
    {NoJson, JNull, JArr(<<>>), MkObj([career_field |-> JNum(5)])}
    \cup {MkObj([career_field |-> JStr(f)]) :
             f \in {Rep("f", MAX_CAREER_FIELD_LENGTH), Rep("f", MAX_CAREER_FIELD_LENGTH + 1)}}

InputRoles == {<<>>, Rep("r", MAX_TARGET_ROLE_LENGTH), Rep("r", MAX_TARGET_ROLE_LENGTH + 1)}

InputUpload == [filename |-> <<"c", "v", ".", "t", "x", "t">>, bytes |-> Bytes(MaxFileSizeBytes)]

InputTokens == ValidTokens \cup {NoToken}

InRegister == \E body \in InputAuthBodies : RegisterReq(body)

InLogin == \E body \in InputAuthBodies : LoginReq(body)

InSavePath == \E token \in InputTokens, body \in InputSaveBodies : SavePathReq(token, body)

InListPaths == \E token \in InputTokens : ListPathsReq(token)

InDeletePath ==
    \E token \in InputTokens, path_id \in PathIds :
        LET out == delete_career_path_route(paths, token, path_id)
        IN /\ paths' = out.paths
           /\ req' = [op |-> "delete-path", token |-> token, path_id |-> path_id]
           /\ resp' = out.resp
           /\ fx' = out.fx
           /\ saved_by' = IF out.resp.status = 200
                          THEN {s \in saved_by : s[1] # path_id}
                          ELSE saved_by
           /\ UNCHANGED <<users, registered, pend>>

InAnalyzeResume ==
    \E token \in ValidTokens, target_role \in InputRoles :
        AnalyzeResumeReq(token, InputUpload, target_role, TRUE,
                         [ok |-> TRUE, text |-> <<"c", "v">>], OkRemote)

InSuggestRoles ==
    \E token \in ValidTokens, file \in {Absent, InputUpload} :
        SuggestRolesReq(token, file, TRUE, [ok |-> TRUE, text |-> <<"c", "v">>], OkRemote)

InExplorePath ==
    \E token \in ValidTokens, body \in InputExploreBodies :
        ExplorePathReq(token, body, TRUE, OkRemote)

\* a register request that reaches its commit, which the store refuses
InRegisterCommitFails ==
    \E body \in InputAuthBodies :
        LET out == register_user_commit_fails(users, body)
        IN /\ ~RegisterCheck(users, body).done
           /\ users' = out.users
           /\ req' = [op |-> "register", body |-> body, commit |-> "fails"]
           /\ resp' = out.resp
           /\ fx' = out.fx
           /\ UNCHANGED <<paths, registered, saved_by, pend>>

\* a save-path request that reaches its commit, which the store refuses
InSaveCommitFails ==
    \E token \in ValidTokens, body \in InputSaveBodies :
        LET out == save_career_path_route_commit_fails(users, paths, token, body)
        IN /\ save_career_path_route(users, paths, token, body).resp.status = 201
           /\ paths' = out.paths
           /\ req' = [op |-> "save-path", token |-> token, body |-> body, commit |-> "fails"]
           /\ resp' = out.resp
           /\ fx' = out.fx
           /\ UNCHANGED <<users, registered, saved_by, pend>>

\* a delete-path request that reaches its commit, which the store refuses
InDeleteCommitFails ==
    \E token \in ValidTokens, path_id \in PathIds :
        LET out == delete_career_path_route_commit_fails(paths, token, path_id)
        IN /\ delete_career_path_route(paths, token, path_id).resp.status = 200
           /\ paths' = out.paths
           /\ req' = [op |-> "delete-path", token |-> token, path_id |-> path_id,
                      commit |-> "fails"]
           /\ resp' = out.resp
           /\ fx' = out.fx
           /\ UNCHANGED <<users, registered, saved_by, pend>>

NextInputs ==
    \/ InRegister
    \/ InLogin
    \/ InSavePath
    \/ InListPaths
    \/ InDeletePath
    \/ InAnalyzeResume
    \/ InSuggestRoles
    \/ InExplorePath
    \/ InRegisterCommitFails
    \/ InSaveCommitFails
    \/ InDeleteCommitFails

SpecInputs == Init /\ [][NextInputs]_vars

ErrorStatuses == {400, 401, 403, 404, 409, 413, 503, 500}

\* C17: every response with an error status is a JSON object with an error
\* field and a status among 400, 401, 403, 404, 409, 413, 503, 500, whatever
\* the shape of the request.
C17_ErrorsAreJson ==
    resp.status >= 400
    => /\ resp.json
       /\ "error" \in DOMAIN resp.body
       /\ resp.status \in ErrorStatuses

\* the body has the field and it is not a string
NonStringField(body, key) ==
    IsObj(body) /\ key \in DOMAIN body.obj /\ ~IsNull(body.obj[key]) /\ ~IsStr(body.obj[key])

\* C18: missing or malformed input is answered 400: explore-path and
\* save-path with no JSON body, register and login with no JSON body or a
\* JSON null body, and explore-path or save-path whose career_field or
\* path_name is present but not a string.
C18_MalformedInputIs400 ==
    (\/ req.op \in {"explore-path", "save-path"} /\ req.token.kind = "valid"
        /\ req.body = NoJson
     \/ req.op \in {"register", "login"} /\ req.body \in {NoJson, JNull}
     \/ req.op = "explore-path" /\ req.token.kind = "valid"
        /\ NonStringField(req.body, "career_field")
     \/ req.op = "save-path" /\ req.token.kind = "valid"
        /\ NonStringField(req.body, "path_name"))
    => resp.status = 400

\* the request of this step reached a commit that the store refused
CommitRefused(r) == "commit" \in DOMAIN r /\ r.commit = "fails"

\* C19: when the store fails during the commit of register, save-path or
\* delete-path, the handler rolls back, answers 500, and the committed
\* users and paths are those of before the request.
C19_FailedCommitRolledBack ==
    [][(req'.op \in {"register", "save-path", "delete-path"} /\ CommitRefused(req'))
       => /\ resp'.status = 500
          /\ resp'.json /\ "error" \in DOMAIN resp'.body
          /\ fx'.rollback
          /\ users' = users
          /\ paths' = paths]_vars

C19_Witness ==
    /\ req.op = "delete-path"
    /\ CommitRefused(req)
    /\ resp.status = 500
    /\ fx.rollback
    /\ \E p \in paths : p.id = req.path_id /\ p.user_id = PyInt(req.token.sub)

StrField(body, key) == IsObj(body) /\ IsStr(Get(body, key))

\* C20: the length caps are inclusive and exact: password 6..255, email at
\* most 255, target_role and career_field 1..150, path_name 1..200; outside
\* them the answer is 400, and a request answered 400 creates nothing.
C20_LengthCaps ==
    [][LET r == req'
           a == resp'
       IN /\ (r.op = "register" /\ ~CommitRefused(r)
              /\ StrField(r.body, "email") /\ StrField(r.body, "password")
              /\ Get(r.body, "email").str = EmailA)
             => LET n == Len(Get(r.body, "password").str)
                IN IF n < 6 \/ n > 255 THEN a.status = 400
                   ELSE IF UsersByEmail(users, EmailA) = {} THEN a.status = 201
                   ELSE a.status = 409
          /\ (r.op \in {"register", "login"}
              /\ StrField(r.body, "email") /\ StrField(r.body, "password")
              /\ Len(Get(r.body, "email").str) > 255)
             => a.status = 400
          /\ (r.op = "analyze-resume" /\ r.token.kind = "valid" /\ r.file = InputUpload
              /\ r.model /\ r.remote = OkRemote)
             => IF Len(r.target_role) = 0 \/ Len(r.target_role) > 150
                THEN a.status = 400 ELSE a.status = 200
          /\ (r.op = "explore-path" /\ r.token.kind = "valid"
              /\ StrField(r.body, "career_field") /\ r.model /\ r.remote = OkRemote)
             => LET n == Len(Get(r.body, "career_field").str)
                IN IF n = 0 \/ n > 150 THEN a.status = 400 ELSE a.status = 200
          /\ (r.op = "save-path" /\ r.token.kind = "valid" /\ ~CommitRefused(r)
              /\ StrField(r.body, "path_name"))
             => LET n == Len(Get(r.body, "path_name").str)
                IN IF n = 0 \/ n > 200 THEN a.status = 400 ELSE a.status = 201
          /\ a.status = 400 => (users' = users /\ paths' = paths)]_vars

C20_Witness ==
    /\ req.op = "save-path"
    /\ StrField(req.body, "path_name")
    /\ Len(Get(req.body, "path_name").str) = 200
    /\ resp.status = 201
    /\ \E r \in registered : Len(r.password) = 255

(***************************************************************************)
(* Uploads of every name and content, under the default and under an       *)
(* extended ALLOWED_EXTENSIONS, and the text helpers applied on their own: *)
(* extract_text_from_file to a stream at any position, and the three       *)
(* prompt builders.                                                        *)
(***************************************************************************)
\* what a helper called on its own returned
Returned(value) == [status |-> 0, json |-> FALSE, body |-> [returned |-> value]]

\* the letter h, the two bytes of U+00E9, and a byte no UTF-8 text holds
TextByteValues == {104, 195, 169, 255}

\* contents up to one byte more than the size limit
TextContents == UNION {[1..n -> TextByteValues] : n \in 0..(MaxFileSizeBytes + 1)}

FilesNames ==
    {<<"c", "v", ".", "t", "x", "t">>,
     <<"c", "v", ".", "T", "X", "T">>,
     <<"c", "v", ".", "p", "d", "f">>,
     <<"c", "v", ".", "P", "D", "F">>,
     <<"c", "v", ".", "r", "t", "f">>,
     <<"c", "v", ".", "e", "x", "e">>}

FilesContents == {<<>>, <<104, 255>>, Bytes(MaxFileSizeBytes), Bytes(MaxFileSizeBytes + 1)}

FilesUploads ==
    {Absent, [filename |-> <<>>, bytes |-> <<104>>]}
    \cup {[filename |-> n, bytes |-> b] : n \in FilesNames, b \in FilesContents}

\* ALLOWED_EXTENSIONS as configured: the default, and with rtf added
ExtensionConfigs == {ALLOWED_EXTENSIONS, ALLOWED_EXTENSIONS \cup {<<"r", "t", "f">>}}

FilesTokens == ValidTokens \cup {NoToken}

\* the uploads sent with a token: every one by a logged-in user, one without
FilesUploadsOf(token) ==
    IF token = NoToken
    THEN {[filename |-> <<"c", "v", ".", "t", "x", "t">>, bytes |-> Bytes(MaxFileSizeBytes)]}
    ELSE FilesUploads

FilesRemotes == {OkRemote, [kind |-> "raises", error |-> "ConnectionError"]}

FilesRegister == RegisterReq(DetailsUser)

FilesAnalyzeResume ==
    \E token \in FilesTokens, target_role \in AiTargetRoles,
       allowed_extensions \in ExtensionConfigs, remote \in FilesRemotes :
      \E file \in FilesUploadsOf(token) : \E lib \in AiLibFor(file) :
        LET out == analyze_resume_route_for(allowed_extensions, token, file, target_role,
                                            TRUE, lib, remote)
        IN /\ req' = [op |-> "analyze-resume", token |-> token, file |-> file,
                      target_role |-> target_role, model |-> TRUE, lib |-> lib,
                      remote |-> remote, allowed_extensions |-> allowed_extensions]
           /\ resp' = out.resp
           /\ fx' = out.fx
           /\ UNCHANGED <<users, paths, registered, saved_by, pend>>

FilesSuggestRoles ==
    \E token \in FilesTokens,
       allowed_extensions \in ExtensionConfigs, remote \in FilesRemotes :
      \E file \in FilesUploadsOf(token) : \E lib \in AiLibFor(file) :
        LET out == suggest_roles_route_for(allowed_extensions, token, file, TRUE, lib, remote)
        IN /\ req' = [op |-> "suggest-roles", token |-> token, file |-> file,
                      model |-> TRUE, lib |-> lib, remote |-> remote,
                      allowed_extensions |-> allowed_extensions]
           /\ resp' = out.resp
           /\ fx' = out.fx
           /\ UNCHANGED <<users, paths, registered, saved_by, pend>>

FilesExplorePath ==
    \E token \in FilesTokens, body \in AiExploreBodies, remote \in FilesRemotes :
        ExplorePathReq(token, body, TRUE, remote)

\* extract_text_from_file applied to a .txt stream that stands at its first
\* byte or, as after a read, at its end
ExtractText ==
    \E bytes \in TextContents, at_end \in BOOLEAN :
        LET file_storage == [filename |-> <<"c", "v", ".", "t", "x", "t">>, bytes |-> bytes,
                             pos |-> IF at_end THEN Len(bytes) ELSE 0]
            lib == [ok |-> TRUE, text |-> <<"c", "v">>]
        IN /\ req' = [op |-> "extract_text_from_file", file_storage |-> file_storage,
                      lib |-> lib]
           /\ resp' = Returned(extract_text_from_file(file_storage, lib))
           /\ fx' = NoFx
           /\ UNCHANGED <<users, paths, registered, saved_by, pend>>

\* the free texts given to the prompt builders: plain ones, and one that
\* holds a fence mark of its own
PromptTexts == {"Zq1", "Zq2", "Zq3\n" \o FenceMark \o "\nZq4"}

ResumeFeedbackPrompt ==
    \E target_role \in PromptTexts, resume_text \in PromptTexts :
        /\ req' = [op |-> "get_resume_feedback_prompt", target_role |-> target_role,
                   resume_text |-> resume_text]
        /\ resp' = Returned(get_resume_feedback_prompt(target_role, resume_text))
        /\ fx' = NoFx
        /\ UNCHANGED <<users, paths, registered, saved_by, pend>>

RoleSuggestionPrompt ==
    \E resume_text \in PromptTexts :
        /\ req' = [op |-> "get_role_suggestion_prompt", resume_text |-> resume_text]
        /\ resp' = Returned(get_role_suggestion_prompt(resume_text))
        /\ fx' = NoFx
        /\ UNCHANGED <<users, paths, registered, saved_by, pend>>

CareerExplorationPrompt ==
    \E career_field \in PromptTexts :
        /\ req' = [op |-> "get_career_exploration_prompt", career_field |-> career_field]
        /\ resp' = Returned(get_career_exploration_prompt(career_field))
        /\ fx' = NoFx
        /\ UNCHANGED <<users, paths, registered, saved_by, pend>>

NextFiles ==
    \/ FilesRegister
    \/ FilesAnalyzeResume
    \/ FilesSuggestRoles
    \/ FilesExplorePath
    \/ ExtractText
    \/ ResumeFeedbackPrompt
    \/ RoleSuggestionPrompt
    \/ CareerExplorationPrompt

SpecFiles == Init /\ [][NextFiles]_vars

\* the current state is what extract_text_from_file returned for a .txt stream
TxtExtracted ==
    /\ req.op = "extract_text_from_file"
    /\ EndsWith(req.file_storage.filename, <<".", "t", "x", "t">>)

\* the text without the replacement characters
WithoutReplacements(text) == SelectSeq(text, LAMBDA c : c # ReplacementChar)

\* C21 as stated: for a .txt upload extract_text_from_file never fails, and
\* each undecodable byte is replaced by a replacement marker in the returned
\* text, the valid parts being returned unchanged and in order.
C21_UndecodableReplaced ==
    TxtExtracted
    => /\ resp.body.returned.ok
       /\ resp.body.returned.text = DecodeReplace(req.file_storage.bytes)

\* C21 as amended: for a .txt upload extract_text_from_file never fails, and
\* each undecodable byte is dropped from the returned text, no marker taking
\* its place, the valid parts being returned unchanged and in order.
C21_UndecodableDropped ==
    TxtExtracted
    => /\ resp.body.returned.ok
       /\ resp.body.returned.text
             = WithoutReplacements(DecodeReplace(req.file_storage.bytes))

C21_Witness ==
    /\ TxtExtracted
    /\ req.file_storage.bytes = <<104, 255, 195>>
    /\ req.file_storage.pos = 3
    /\ resp.body.returned.ok
    /\ resp.body.returned.text = <<"h">>

PromptOps ==
    {"get_resume_feedback_prompt", "get_role_suggestion_prompt",
     "get_career_exploration_prompt"}

\* the user-supplied free texts of the current call of a prompt builder
UserTexts ==
    IF req.op = "get_resume_feedback_prompt" THEN {req.target_role, req.resume_text}
    ELSE IF req.op = "get_role_suggestion_prompt" THEN {req.resume_text}
    ELSE {req.career_field}

\* segments open and close delimit a fenced block of the prompt
FencedBlock(segments, open, close) ==
    /\ open < close
    /\ segments[open] = FenceMark \o "\n"
    /\ segments[close] = "\n" \o FenceMark \o "\n\n"

\* C22: each prompt builder returns a segment list in which all the
\* user-supplied free text (resume text, target role, career field) appears
\* only inside a fenced block, with instruction segments before the block
\* and formatting instructions after it.
C22_UserTextFenced ==
    req.op \in PromptOps
    => LET segments == resp.body.returned
       IN \E open, close \in 1..Len(segments) :
             /\ FencedBlock(segments, open, close)
             /\ 1 < open
             /\ close < Len(segments)
             /\ \A i \in 1..Len(segments) :
                   (\E t \in UserTexts : Contains(segments[i], t))
                   => (open < i /\ i < close)

\* the call of the remote model fails: it raises, or its response has no text
RemoteFails(remote) == remote.kind = "raises" \/ remote.text = <<>>

\* C23: each AI endpoint request makes at most one call to the remote
\* model; when the call fails (an error is raised, the response is empty, or
\* the prompt is blocked) there is no second call and the answer is 500.
C23_SingleCallNoRetry ==
    req.op \in AiOps
    => /\ fx.remote <= 1
       /\ (ValidAiRequest /\ req.model /\ RemoteFails(req.remote))
          => (fx.remote = 1 /\ resp.status = 500)

C23_Witness ==
    /\ req.op = "suggest-roles"
    /\ ValidAiRequest
    /\ req.model
    /\ req.remote = NoText(FALSE, "SAFETY", "unsafe prompt")
    /\ fx.remote = 1
    /\ resp.status = 500

\* the last n characters of a name
LastChars(name, n) == SubSeq(name, IF Len(name) > n THEN Len(name) - n + 1 ELSE 1, Len(name))

\* the name ends in .pdf, .docx or .txt, in lower case
LowerCaseSuffix(name) ==
    \/ LastChars(name, 4) \in {<<".", "p", "d", "f">>, <<".", "t", "x", "t">>}
    \/ LastChars(name, 5) = <<".", "d", "o", "c", "x">>

\* the current request is an authenticated upload that passes the allow-list
\* of its configuration, the size check and the target_role checks
ReachesExtraction ==
    /\ NamedUpload
    /\ HasDot(req.file.filename)
    /\ PyLower(AfterLastDot(req.file.filename)) \in req.allowed_extensions
    /\ Len(req.file.bytes) <= MaxFileSizeBytes
    /\ req.op = "analyze-resume"
       => (req.target_role # <<>> /\ Len(req.target_role) <= MAX_TARGET_ROLE_LENGTH)

\* C24: a filename that passes the allow-list but whose suffix is not .pdf,
\* .docx or .txt in lower case (it differs by letter case, or its extension
\* was added to the configured set) makes the extractor decline: the answer
\* is 400 with the corrupt-or-unsupported message and no call of the model.
C24_CaseMismatchDeclined ==
    (ReachesExtraction /\ ~LowerCaseSuffix(req.file.filename))
    => /\ resp.status = 400
       /\ resp.body.error
             = "Could not extract text from file. It might be corrupted or an unsupported format variant."
       /\ fx.extract = 1
       /\ fx.remote = 0

C24_Witness ==
    /\ ReachesExtraction
    /\ req.op = "analyze-resume"
    /\ req.file.filename = <<"c", "v", ".", "r", "t", "f">>
    /\ req.remote = OkRemote
    /\ resp.status = 400
    /\ fx.extract = 1
    /\ fx.remote = 0

\* C25: in analyze-resume and suggest-roles the upload is read twice within
\* the request, and the bytes handed to the extractor are the bytes whose
\* length was compared with the size limit, from the first byte on; the
\* extractor starts at the first byte wherever the stream stood.
C25_SameBytesReadTwice ==
    /\ (ReachesExtraction /\ LowerCaseSuffix(req.file.filename))
       => /\ fx.reads = 2
          /\ fx.read_data = <<req.file.bytes, req.file.bytes>>
    /\ TxtExtracted
       => resp.body.returned.data = <<req.file_storage.bytes>>

C25_Witness ==
    /\ ReachesExtraction
    /\ req.op = "analyze-resume"
    /\ req.file.filename = <<"c", "v", ".", "t", "x", "t">>
    /\ req.file.bytes = <<104, 255>>
    /\ fx.read_data = <<<<104, 255>>, <<104, 255>>>>
    /\ resp.status = 200

\* the current request passes every check its handler makes before it calls
\* the model
PassesEveryCheck ==
    /\ req.token.kind = "valid"
    /\ IF req.op \in UploadOps
       THEN /\ ReachesExtraction
            /\ LowerCaseSuffix(req.file.filename)
            /\ LastChars(req.file.filename, 4) # <<".", "t", "x", "t">> => req.lib.ok
       ELSE /\ StrField(req.body, "career_field")
            /\ Len(Get(req.body, "career_field").str) \in 1..MAX_CAREER_FIELD_LENGTH

\* C30: the AI model is called only in a request that has passed every
\* earlier check of its handler; no request answered 400, 401 or 413 has
\* made a remote call; an upload whose extracted text is empty is not
\* declined and does reach the model.
C30_ModelCalledOnlyAfterChecks ==
    req.op \in AiOps
    => /\ resp.status \in {400, 401, 413} => fx.remote = 0
       /\ fx.remote > 0 => PassesEveryCheck
       /\ (PassesEveryCheck /\ req.op \in UploadOps /\ req.file.bytes = <<>>)
          => (fx.remote = 1 /\ resp.status \notin {400, 401, 413})

C30_Witness ==
    /\ req.op = "suggest-roles"
    /\ PassesEveryCheck
    /\ req.file.filename = <<"c", "v", ".", "t", "x", "t">>
    /\ req.file.bytes = <<>>
    /\ req.remote = OkRemote
    /\ fx.remote = 1
    /\ resp.status = 200

(***************************************************************************)
(* Concurrent delete-path requests: each worker runs the handler in two    *)
(* steps, the lookup with the ownership test (lines 115-125) and the       *)
(* delete with its commit (lines 127-130); the store serializes the        *)
(* commits.                                                                *)
(***************************************************************************)
\* lines 115-125: the lookup and the tests that precede the delete
DeleteCheck(ps, token, path_id) ==
    LET out == delete_career_path_route(ps, token, path_id)
    IN IF out.resp.status = 200
       THEN [done |-> FALSE, path_to_delete |-> CHOOSE p \in GetPath(ps, path_id) : TRUE]
       ELSE [done |-> TRUE, resp |-> out.resp, fx |-> out.fx]

\* what the store does with a DELETE that matches no row: the ORM warns and
\* the commit succeeds, or (under snapshot isolation) the store rejects the
\* transaction with a serialization failure
StaleDeletes == {"warned", "rejected"}

\* lines 127-135: db.session.delete(path_to_delete) and the commit, the
\* DELETE addressing the row by its id
DeleteCommit(ps, path_to_delete, stale) ==
    LET found == GetPath(ps, path_to_delete.id)
        f == CommitFailed("Failed to delete career path due to a database error.")
    IN IF found = {} /\ stale = "rejected"
       THEN Out(ps, f.resp, f.fx)
       ELSE Out(ps \ found, Json([message |-> "Career path deleted successfully"], 200), NoFx)

ConcRegister == RegisterReq(DetailsUser)

ConcSavePath ==
    \E token \in ValidTokens :
        SavePathReq(token, MkObj([path_name |-> JStr(NameX), path_details_json |-> DetailsK1]))

DeleteBegin(p) ==
    /\ pend[p] = Idle
    /\ \E token \in ValidTokens, path_id \in PathIds :
          LET c == DeleteCheck(paths, token, path_id)
          IN IF c.done
             THEN /\ req' = [op |-> "delete-path", token |-> token, path_id |-> path_id]
                  /\ resp' = c.resp
                  /\ fx' = c.fx
                  /\ UNCHANGED pend
             ELSE /\ pend' = [pend EXCEPT ![p] = [pc |-> "commit", token |-> token,
                                                  path_id |-> path_id,
                                                  path_to_delete |-> c.path_to_delete]]
                  /\ UNCHANGED <<req, resp, fx>>
    /\ UNCHANGED <<users, paths, registered, saved_by>>

DeleteFinish(p) ==
    /\ pend[p] # Idle
    /\ \E stale \in StaleDeletes :
          LET out == DeleteCommit(paths, pend[p].path_to_delete, stale)
          IN /\ paths' = out.paths
             /\ req' = [op |-> "delete-path", token |-> pend[p].token,
                        path_id |-> pend[p].path_id]
             /\ resp' = out.resp
             /\ fx' = out.fx
             /\ saved_by' = {s \in saved_by : \E q \in out.paths : q.id = s[1]}
    /\ pend' = [pend EXCEPT ![p] = Idle]
    /\ UNCHANGED <<users, registered>>

NextDelConc ==
    \/ ConcRegister
    \/ ConcSavePath
    \/ \E p \in Procs : DeleteBegin(p) \/ DeleteFinish(p)

SpecDelConc == Init /\ [][NextDelConc]_vars

\* C26: when delete-path requests of the owner for the same path interleave,
\* each request that reaches its commit ends either having removed the row
\* (200) or reporting not-found (404), and none ends in a 500.
C26_RacingDeletesRemoveOrReport ==
    [][\A p \in Procs :
          (pend[p] # Idle /\ pend'[p] = Idle)
          => LET path_id == pend[p].path_id
             IN \/ /\ resp'.status = 200
                   /\ GetPath(paths, path_id) # {}
                   /\ GetPath(paths', path_id) = {}
                \/ /\ resp'.status = 404
                   /\ paths' = paths]_vars

(***************************************************************************)
(* Two users and their paths: the blueprint handlers with tokens of stored *)
(* users, with no token, and with a verified token whose user is not in    *)
(* the store, next to POST /api/save-path of server/app.py.                *)
(***************************************************************************)
\* a token the application signed for a user that the store does not hold
OrphanToken == create_access_token(<<"9">>)

OwnTokens == ValidTokens \cup {NoToken, OrphanToken}

OwnAuthBodies ==
    {MkObj([email |-> JStr(EmailA), password |-> JStr(Pw1)]),
     MkObj([email |-> JStr(EmailB), password |-> JStr(Pw1)])}

\* save-path bodies: a name with a user_id member, and no name
OwnSaveBodies ==
    {MkObj([path_name |-> n, user_id |-> JNum(1)]) : n \in {JStr(NameX), Absent}}

\* the bodies sent to the handler of app.py
AppSaveBodies ==
    {MkObj([path_name |-> JStr(NameX), user_id |-> u]) : u \in {Absent, JNum(2), JNum(9)}}

OwnRegister == \E body \in OwnAuthBodies : RegisterReq(body)

OwnLogin == LoginReq(MkObj([email |-> JStr(EmailA), password |-> JStr(Pw1)]))

OwnSavePath == \E token \in OwnTokens, body \in OwnSaveBodies : SavePathReq(token, body)

OwnListPaths == \E token \in ValidTokens : ListPathsReq(token)

OwnDeletePath ==
    \E token \in OwnTokens, path_id \in PathIds :
        LET out == delete_career_path_route(paths, token, path_id)
        IN /\ paths' = out.paths
           /\ req' = [op |-> "delete-path", token |-> token, path_id |-> path_id]
           /\ resp' = out.resp
           /\ fx' = out.fx
           /\ saved_by' = {s \in saved_by : \E q \in out.paths : q.id = s[1]}
           /\ UNCHANGED <<users, registered, pend>>

\* one request to POST /api/save-path of app.py; the handler reads no token,
\* the one the client sent is kept in req
AppSavePath ==
    \E token \in {NoToken, create_access_token(<<"1">>)}, body \in AppSaveBodies :
        LET out == save_career_path(users, paths, body)
        IN /\ \A p \in out.paths : p.id <= MaxPathId
           /\ paths' = out.paths
           /\ req' = [op |-> "app.save-path", token |-> token, body |-> body]
           /\ resp' = out.resp
           /\ fx' = out.fx
           /\ UNCHANGED <<users, registered, saved_by, pend>>

NextOwners ==
    \/ OwnRegister
    \/ OwnLogin
    \/ OwnSavePath
    \/ OwnListPaths
    \/ OwnDeletePath
    \/ AppSavePath

SpecOwners == Init /\ [][NextOwners]_vars

\* the request body passes the validation of save-path
SaveBodyValid(body) ==
    /\ StrField(body, "path_name")
    /\ Len(Get(body, "path_name").str) \in 1..MAX_PATH_NAME_LENGTH

\* C27: every SavedPath's user_id is the id of a stored user; save-path with
\* a valid token whose identity is not the id of a stored user is answered
\* 404 and creates no path; no endpoint removes a user.
C27_PathsReferenceUsers ==
    [][/\ \A p \in paths' : \E u \in users' : u.id = p.user_id
       /\ users \subseteq users'
       /\ (/\ req'.op = "save-path"
           /\ req'.token.kind = "valid"
           /\ SaveBodyValid(req'.body)
           /\ {u \in users : u.id = PyInt(req'.token.sub)} = {})
          => (resp'.status = 404 /\ paths' = paths)]_vars

C27_Witness ==
    /\ req.op = "save-path"
    /\ req.token = OrphanToken
    /\ SaveBodyValid(req.body)
    /\ users # {}
    /\ paths # {}
    /\ resp.status = 404

\* C28: a path created by save-path is owned by the user the request's
\* token identifies and by no one else; a user_id member of the request
\* body has no effect on the owner.
C28_OwnerIsTokenIdentity ==
    [][(req'.op \in {"save-path", "app.save-path"} /\ resp'.status = 201)
       => /\ req'.token.kind = "valid"
          /\ \E p \in paths' :
                /\ paths' = paths \cup {p}
                /\ p \notin paths
                /\ p.user_id = PyInt(req'.token.sub)]_vars

\* C29: a delete-path answered 200 removes the addressed path and nothing
\* else, and changes no user; register, login and list change no path and
\* keep every existing user; a request answered with a 4xx status changes
\* no user and no path.
C29_FrameOfDeleteAndReads ==
    [][/\ (req'.op = "delete-path" /\ resp'.status = 200)
          => /\ \E p \in paths : p.id = req'.path_id
             /\ paths' = {q \in paths : q.id # req'.path_id}
             /\ users' = users
       /\ (req'.op \in {"register", "login", "list-paths"})
          => (paths' = paths /\ users \subseteq users')
       /\ (resp'.status \in 400..499)
          => (paths' = paths /\ users' = users)]_vars

C29_Witness ==
    /\ req.op = "delete-path"
    /\ resp.status = 200
    /\ \E p \in paths : p.id # req.path_id

====
